---------------------------- MODULE Spec2Model ----------------------------
(***************************************************************************)
(* Model of the U-Campus userscript v19.0 (src/unnamed/part_000).          *)
(*                                                                         *)
(* Spec       : the task sequencer main() with its callers (start/stop     *)
(*              button, setTimeout callbacks, the URL MutationObserver)    *)
(*              and the host page as environment.  JavaScript runs every   *)
(*              callback to completion, so one action is one run from a    *)
(*              resumption point to the next await of a timer.             *)
(* SpecLive   : the sequencer from a fresh install under the scheduling of *)
(*              the browser (timers fire, mutations are delivered, awaits  *)
(*              return).                                                   *)
(* SpecBank   : the sequencer together with loadRemoteQuestionBank().      *)
(* SpecAnswer : the answering engine doAnswer() on one rendered view with  *)
(*              a bounded page and a bounded answer string.                *)
(* SpecHandlers: one call of handleVideoTask(), handleVocabularyTask() or  *)
(*              completeAndNavigateTaskInternal() on a bounded page.       *)
(***************************************************************************)
EXTENDS Integers, Sequences, FiniteSets, TLC

(***************************************************************************)
(* Bounds of the model.                                                    *)
(***************************************************************************)
\* main() invocations that may be in flight at once
MaxInv == 2
\* setTimeout(main, 1500) callbacks that may be pending at once
MaxTimers == 1
\* entries of the host page's main-task menu
NumPages == 2

VARIABLES
    \* ---- script state (part_000 lines 24-27) and Tampermonkey storage
    isAutomationRunning,
    isProcessing,
    urlObserver,          \* TRUE iff urlObserver is not null
    obsLastUrl,           \* lastUrl of the observer callback's closure
    lastAnsweredSubTask,
    gmLastProcessed,      \* GM value 'lastProcessedTaskName' ('' when absent)
    gmLastUrl,            \* GM value 'lastUrl' (0 when absent)
    timers,               \* pending setTimeout(main, 1500) callbacks
    bank,                 \* COURSE_DATA.QUESTION_BANK and its pending request
    inv,                  \* the main() invocations in flight
    idFails,              \* history: identification failures in a row
    \* ---- host page
    href,                 \* location.href: the menu entry being shown
    pageTabs,             \* titles of the tabs in .pc-header-tabs-container
    answeredViews,        \* history: views doAnswer() answered since the toggle
    freshStart,           \* history: no main() has passed its guard since the
                          \* last start of automation
    observers,            \* number of MutationObservers created by
                          \* startObserver() and not disconnected
    lastStep,             \* history: whether the step just taken was a main()
                          \* call ending at its guard ("guard") or at line 347
                          \* ("cancel"), or the observer callback registering
                          \* a URL change ("observed")
    \* ---- doAnswer() on one rendered view (SpecAnswer)
    answers,              \* the answer string found in the bank
    choiceQuestions,      \* the choice blocks, each a sequence of options
    textInputs,           \* values of textarea.question-inputbox-input
    fillInBlanks,         \* values of .fe-scoop .comp-abs-input input
    apc,                  \* position of doAnswer()
    ai,                   \* its loop index i (1-based)
    answered,             \* its local flag
    calls,                \* doAnswer() calls made on this view
    clicks,               \* history: the option clicks
    writes,               \* history: the input assignments
    \* ---- one call of a task handler or of the submit sequence (SpecHandlers)
    hkind,                \* which function is called
    hpc,                  \* its position
    hret,                 \* its promise: "pending", "true" or "false"
    hclicks,              \* history: the clicks it has made
    video,                \* the page's video element and the handler's timers
    voc,                  \* the flashcard widget and the local maxClicks
    buttons,              \* the buttons of the submit sequence
    \* ---- the archived script variants (SpecClassify)
    cAnswer,              \* the answer string a variant classifies
    cClass,               \* history: the <<variant, class>> pairs computed
    \* ---- processCurrentPage() and the URL polling of the archived
    \*      scripts (SpecArchived)
    variant,              \* which archived script is installed
    guardFlag,            \* its isProcessing (isRunning in the full version)
    pcp,                  \* where each invocation of processCurrentPage is
    returned,             \* history: the ways invocations have returned
    v3Running,            \* AutoJS v3.2: isAutomationRunning
    v3Loads,              \* startAutomation calls awaiting loadQuestionBank()
    v3Chains,             \* pending setTimeout(checkUrl, 2000) callbacks
    v3Timers,             \* pending setTimeout(processCurrentPage, 3000)
    \* ---- the text bank of the AutoJS v3.2 script (SpecTextBank)
    questionBankContent,  \* the fetched text, or not loaded
    lookupCall,           \* history: the last findAnswerInQuestionBank call
    \* ---- the JSON bank of the v1/v2 scripts (SpecJsonBank)
    questionBank,         \* the bank object, null until loaded
    loadResult,           \* history: how loadQuestionBank() ended, and the
                          \* remote data it received
    answerCall            \* history: the last getAnswer call

seqVars == <<isAutomationRunning, isProcessing, urlObserver, obsLastUrl,
             lastAnsweredSubTask, gmLastProcessed, gmLastUrl, timers, inv,
             idFails, href, pageTabs, answeredViews, freshStart, observers,
             lastStep>>

ansVars == <<answers, choiceQuestions, textInputs, fillInBlanks, apc, ai,
             answered, calls, clicks, writes>>

hVars == <<hkind, hpc, hret, hclicks, video, voc, buttons>>

guardVars == <<variant, guardFlag, pcp, returned, v3Running, v3Loads,
               v3Chains, v3Timers>>
textVars == <<questionBankContent, lookupCall>>
jsonVars == <<questionBank, loadResult, answerCall>>
archVars == <<cAnswer, cClass, guardVars, textVars, jsonVars>>

\* what the sequencer's actions leave alone
nonSeqVars == <<ansVars, hVars, bank, archVars>>

vars == <<seqVars, ansVars, hVars, bank, archVars>>

(***************************************************************************)
(* Strings are sequences of characters.                                    *)
(***************************************************************************)
\* String.prototype.includes
Includes(s, sub) ==
    \E k \in 0..(Len(s) - Len(sub)) : SubSeq(s, k + 1, k + Len(sub)) = sub

EmptyStr == <<>>

(***************************************************************************)
(* COURSE_DATA.UNIT_STRUCTURE, the task map.  A standalone entry has no    *)
(* needsSubmit property, which reads as false.                             *)
(***************************************************************************)
Child(n, m, s) == [name |-> n, method |-> m, needsSubmit |-> s]

Standalone(i, m) ==
    [id |-> i, type |-> "standalone", method |-> m, needsSubmit |-> FALSE,
     children |-> <<>>]

Composite(i, c) ==
    [id |-> i, type |-> "composite", method |-> "none", needsSubmit |-> FALSE,
     children |-> c]

UNIT_STRUCTURE ==
    << Standalone(<<"1", "-", "1">>, "video"),
       Composite(<<"1", "-", "2">>,
                 << Child("Reading in detail", "skip", FALSE),
                    Child("Vocabulary", "vocabulary", FALSE),
                    Child("Reading comprehension", "quiz", TRUE),
                    Child("Dealing with vocabulary", "quiz", TRUE) >>),
       Composite(<<"1", "-", "3">>,
                 << Child("Gems of the language", "video", FALSE),
                    Child("Repeating after me", "skip", FALSE),
                    Child("Application", "quiz", TRUE) >>),
       Composite(<<"1", "-", "4">>,
                 << Child("Reading in detail", "skip", FALSE),
                    Child("Vocabulary", "vocabulary", FALSE),
                    Child("Reading comprehension", "quiz", TRUE),
                    Child("Dealing with vocabulary", "quiz", TRUE) >>),
       Composite(<<"1", "-", "5">>,
                 << Child("Repeating after me", "skip", FALSE) >>),
       Standalone(<<"1", "-", "6">>, "skip"),
       Composite(<<"1", "-", "7">>,
                 << Child("Part I", "quiz", TRUE),
                    Child("Part II", "quiz", TRUE),
                    Child("Part III", "quiz", TRUE) >>) >>

\* UNIT_STRUCTURE.find(t => title.includes(t.id)): the index of the first
\* matching entry, 0 when find() returns undefined
FindTask(title) ==
    LET hits == {k \in 1..Len(UNIT_STRUCTURE) : Includes(title, UNIT_STRUCTURE[k].id)}
    IN  IF hits = {} THEN 0 ELSE CHOOSE k \in hits : \A j \in hits : k <= j

(***************************************************************************)
(* The host page.  The main-task menu (.pc-slider-menu-micro) lists the    *)
(* titles below; location.href identifies the entry being shown.           *)
(***************************************************************************)
MenuTitles ==
    << <<"1", "-", "3", " ", "R">>,     \* composite: video, skip, quiz+submit
       <<"0", "-", "1", " ", "I">>,     \* not in the task map
       <<"1", "-", "6", " ", "U">>,     \* standalone: skip
       <<"1", "-", "1", " ", "S">>,     \* standalone: video
       <<"1", "-", "5", " ", "R">> >>   \* composite: skip

Pages == 1..NumPages

\* title attribute of '.pc-menu-activity .pc-menu-node-name'
TitleOf(p) == MenuTitles[p]

NoUrl == 0

\* The tab titles a task page of the course can show
AllTabNames ==
    UNION { {UNIT_STRUCTURE[t].children[k].name :
                k \in 1..Len(UNIT_STRUCTURE[t].children)} :
            t \in {FindTask(TitleOf(p)) : p \in Pages} \ {0} }

(***************************************************************************)
(* lastAnsweredSubTask holds `${mainTaskContent}-${activeSubTaskName}`,    *)
(* kept here as the pair, or '' (NoKey).                                   *)
(***************************************************************************)
NoKey == <<>>

AnswerKey(title, subTask) == <<title, subTask>>

(***************************************************************************)
(* One main() invocation: its position (pc) and its locals.                *)
(*   sleep3000   awaiting sleep(3000), line 316                            *)
(*   tabSleep    awaiting sleep(2500) after a tab click, line 358          *)
(*   handler     awaiting inside executeMethod, lines 339 and 359          *)
(*   submitWait, submitNextQ, submitClicked, submitConfirm                 *)
(*               awaiting inside completeAndNavigateTaskInternal           *)
(*   subSleep    awaiting sleep(1500) after a sub-task submit, line 363    *)
(*   navSleep    awaiting sleep(2000) in navigateToNextMainTask, line 437  *)
(* title, task, child, tabs (subTaskElements) and key (the context of       *)
(* doAnswer) are its locals.  Two history fields: stalled records that the *)
(* invocation read the persisted label and URL from the page, handled the  *)
(* children whose tab it has clicked, submits the calls of the submit       *)
(* sequence it has made (<<"sub", child>> or <<"final", 0>>).  ctx tells the two calls of the      *)
(* submit sequence apart ("sub", "final"); during sleep3000 it carries the *)
(* history mark "first" of the first invocation past the guard since a     *)
(* start of automation.                                                    *)
(***************************************************************************)
IdleInv ==
    [pc |-> "idle", title |-> EmptyStr, task |-> 0, child |-> 0, tabs |-> {},
     ctx |-> "none", key |-> NoKey, stalled |-> FALSE, handled |-> <<>>,
     submits |-> <<>>]

\* main() has returned at line 347 (the run flag was off)
Cancelled == [IdleInv EXCEPT !.ctx = "cancelled"]

Slots == 1..MaxInv

InFlight == {i \in Slots : inv[i].pc # "idle"}

FreeSlot == CHOOSE i \in Slots \ InFlight : \A j \in Slots \ InFlight : i <= j

TaskOf(rec) == UNIT_STRUCTURE[rec.task]

\* The method of the handler the invocation runs (lines 339 and 359)
MethodOf(rec) ==
    IF TaskOf(rec).type = "standalone" THEN TaskOf(rec).method
    ELSE TaskOf(rec).children[rec.child].method

(***************************************************************************)
(* Script globals as one record, so that toggleAutomation can be applied   *)
(* inside the steps of main() and navigateToNextMainTask() that call it.   *)
(***************************************************************************)
Globals ==
    [run |-> isAutomationRunning, proc |-> isProcessing, obs |-> urlObserver,
     obsUrl |-> obsLastUrl, lastAns |-> lastAnsweredSubTask,
     gmLP |-> gmLastProcessed, gmLU |-> gmLastUrl, timers |-> timers,
     views |-> answeredViews, fresh |-> freshStart, live |-> observers]

SetGlobals(g) ==
    /\ isAutomationRunning' = g.run
    /\ isProcessing' = g.proc
    /\ urlObserver' = g.obs
    /\ obsLastUrl' = g.obsUrl
    /\ lastAnsweredSubTask' = g.lastAns
    /\ gmLastProcessed' = g.gmLP
    /\ gmLastUrl' = g.gmLU
    /\ timers' = g.timers
    /\ answeredViews' = g.views
    /\ freshStart' = g.fresh
    /\ observers' = g.live

\* startObserver(): a second observer is never created
startObserver(g, url) ==
    IF g.obs THEN g
    ELSE [g EXCEPT !.obs = TRUE, !.obsUrl = url, !.live = @ + 1]

\* Variant of stopObserver: the reference is dropped, the observer stays
\* connected
stopObserverLeaks(g) == [g EXCEPT !.obs = FALSE, !.obsUrl = NoUrl]

\* stopObserver(): disconnect and drop the observer (and its closure)
stopObserver(g) ==
    IF g.obs THEN [g EXCEPT !.obs = FALSE, !.obsUrl = NoUrl, !.live = @ - 1]
    ELSE g

\* toggleAutomation(): flips the run flag; on start deletes the persisted
\* label, clears the dedup key, starts the observer and schedules main();
\* on stop clears isProcessing and stops the observer.  A run begins or ends
\* here, so the history of answered views starts afresh.
toggleAutomation(g, url) ==
    IF ~g.run
    THEN [startObserver(g, url) EXCEPT !.run = TRUE, !.gmLP = EmptyStr,
                                       !.lastAns = NoKey, !.timers = @ + 1,
                                       !.views = {}, !.fresh = TRUE]
    ELSE [stopObserver(g) EXCEPT !.run = FALSE, !.proc = FALSE, !.views = {},
                                 !.fresh = FALSE]

\* the finally block of main(): isProcessing = false
Finally(g) == [g EXCEPT !.proc = FALSE]

(***************************************************************************)
(* The synchronous continuations of main().                                *)
(***************************************************************************)
\* completeAndNavigateTaskInternal() up to its first await, sleep(1000)
StartSubmit(rec, ctx) ==
    [rec EXCEPT !.pc = "submitWait", !.ctx = ctx,
                !.submits = Append(@, IF ctx = "final" THEN <<ctx, 0>>
                                      ELSE <<ctx, rec.child>>)]

\* lines 368-369: the final submit sequence
FinalSubmit(rec) == StartSubmit(rec, "final")

\* navigateToNextMainTask() up to its first await, sleep(2000)
StartNavigate(rec) == [rec EXCEPT !.pc = "navSleep"]

\* Variant of NextTab: a missing tab ends the loop (break for continue)
NextTabBreaks(ch, tabs, k) ==
    IF k > Len(ch) THEN k
    ELSE IF ch[k].name \in tabs THEN k
    ELSE Len(ch) + 1

\* subTaskElements.find(el => el.getAttribute('title') === name) for the
\* children from k on: the first child whose tab exists, Len + 1 if none
RECURSIVE NextTab(_, _, _)
NextTab(ch, tabs, k) ==
    IF k > Len(ch) THEN k
    ELSE IF ch[k].name \in tabs THEN k
    ELSE NextTab(ch, tabs, k + 1)

\* Variant of LoopFrom: the run flag is not tested at the start of an
\* iteration
LoopIgnoresStop(rec, k, running) ==
    LET ch == TaskOf(rec).children
        j  == NextTab(ch, rec.tabs, k)
    IN  IF j > Len(ch) THEN FinalSubmit(rec)
        ELSE [rec EXCEPT !.pc = "tabSleep", !.child = j,
                         !.handled = Append(@, j)]

\* lines 346-358: the composite loop from child k up to the next await.
\* IdleInv stands for "main() has returned".
LoopFrom(rec, k, running) ==
    LET ch == TaskOf(rec).children
        j  == NextTab(ch, rec.tabs, k)
    IN  IF k > Len(ch) THEN FinalSubmit(rec)
        ELSE IF ~running THEN Cancelled
        ELSE IF j > Len(ch) THEN FinalSubmit(rec)
        ELSE [rec EXCEPT !.pc = "tabSleep", !.child = j,
                         !.handled = Append(@, j)]

\* Variant of AfterHandler: needsSubmit is not looked at
AfterHandlerNoSubmit(rec, running) ==
    IF TaskOf(rec).type = "standalone" THEN FinalSubmit(rec)
    ELSE LoopFrom(rec, rec.child + 1, running)

\* lines 340-342 and 361-364: what follows executeMethod()
AfterHandler(rec, running) ==
    IF TaskOf(rec).type = "standalone"
    THEN IF TaskOf(rec).needsSubmit THEN StartSubmit(rec, "sub")
         ELSE FinalSubmit(rec)
    ELSE IF TaskOf(rec).children[rec.child].needsSubmit
         THEN StartSubmit(rec, "sub")
         ELSE LoopFrom(rec, rec.child + 1, running)

\* executeMethod(method): a handler that meets no timer await returns within
\* the same run (imm); otherwise the invocation is suspended inside it
StartHandler(rec, method, imm, key, running) ==
    IF imm THEN AfterHandler(rec, running)
    ELSE [rec EXCEPT !.pc = "handler",
                     !.key = IF method = "quiz" THEN key ELSE NoKey]

\* COURSE_DATA.QUESTION_BANK: whether it holds units (line 73) and whether a
\* GM_xmlhttpRequest for it is under way (lines 68-79)
BankRequested == [loaded |-> FALSE, pending |-> TRUE]

BankLoaded == [loaded |-> TRUE, pending |-> FALSE]

\* Object.keys(COURSE_DATA.QUESTION_BANK).length === 0, lines 217 and 220
BankEmpty == ~bank.loaded

\* Whether the handler can return without suspending:
\*   skip        always sleeps (line 291)
\*   video       returns at once iff the page has no video (line 272)
\*   vocabulary  returns at once without wrapper or next button (297, 302)
\*   quiz        with an empty bank sleeps (line 219); otherwise 'answered'
\*               or no context returns at once (line 223); a click or fill
\*               is followed by a sleep
ImmChoices(method, key, lastAns) ==
    IF method = "skip" THEN {FALSE}
    ELSE IF method = "quiz" /\ BankEmpty THEN {FALSE}
    ELSE IF method = "quiz" /\ lastAns = key THEN {TRUE}
    ELSE BOOLEAN

\* getPageContextAndAnswers(): the active sub-task, 'Part I' when the page
\* shows no tab (line 206)
ActiveSubTask(rec) ==
    IF TaskOf(rec).type = "composite"
    THEN TaskOf(rec).children[rec.child].name
    ELSE "Part I"

\* No view is being answered (the state of the answering variables under
\* Spec)
AnswerIdle ==
    /\ answers = EmptyStr
    /\ choiceQuestions = <<>>
    /\ textInputs = <<>>
    /\ fillInBlanks = <<>>
    /\ apc = "idle"
    /\ ai = 0
    /\ answered = FALSE
    /\ calls = 0
    /\ clicks = <<>>
    /\ writes = <<>>

\* The page without a video element
NoVideo ==
    [present |-> FALSE, readyState |-> 0, duration |-> 0, currentTime |-> 0,
     muted |-> FALSE, listener |-> FALSE, ceiling |-> FALSE, play |-> "none"]

\* The page without a flashcard widget
NoVocabulary == [wrapper |-> FALSE, next |-> FALSE, maxClicks |-> 0]

\* The buttons the submit sequence looks for: the next-question button
\* (absent, disabled or enabled), the first element of each of the three
\* submit selectors (absent, hidden, with another text, or matching) and
\* whether a confirmation dialog follows the click
NoSubmitPage ==
    [nextQ |-> "none", sel |-> <<"none", "none", "none">>, dialog |-> FALSE]

\* No handler is being run (the state of these variables under the other
\* specifications)
HandlersIdle ==
    /\ hkind = "none"
    /\ hpc = "call"
    /\ hret = "pending"
    /\ hclicks = 0
    /\ video = NoVideo
    /\ voc = NoVocabulary
    /\ buttons = NoSubmitPage

\* No archived variant is being looked at (the state of these variables
\* under the specifications of the v19 script)
\* Bounds of the archived scripts' model: invocations of processCurrentPage
\* in flight or refused, startAutomation calls in flight, polling timers
MaxPcp == 2
MaxLoads == 2
MaxChains == 3
MaxPcpTimers == 1

PcpSlots == 1..MaxPcp

\* no archived script is running
GuardIdle ==
    /\ variant = "simplified"
    /\ guardFlag = FALSE
    /\ pcp = [i \in PcpSlots |-> "idle"]
    /\ returned = {}
    /\ v3Running = FALSE
    /\ v3Loads = 0
    /\ v3Chains = 0
    /\ v3Timers = 0

\* questionBankContent = null
NotLoaded == [loaded |-> FALSE, text |-> <<>>]

\* no call of findAnswerInQuestionBank has been made
NoLookup ==
    [done |-> FALSE, unit |-> <<>>, task |-> <<>>, subTask |-> <<>>,
     found |-> FALSE, answer |-> <<>>]

TextIdle ==
    /\ questionBankContent = NotLoaded
    /\ lookupCall = NoLookup

\* JSON values: null, undefined, a string, an object; Thrown stands for a
\* TypeError raised instead of a value
JNull == [kind |-> "null", val |-> "", fields |-> <<>>]
JUndefined == [kind |-> "undefined", val |-> "", fields |-> <<>>]
Thrown == [kind |-> "throw", val |-> "", fields |-> <<>>]
JStr(s) == [kind |-> "string", val |-> s, fields |-> <<>>]
JObj(f) == [kind |-> "object", val |-> "", fields |-> f]

\* loadQuestionBank() has not completed
NotCompleted == [outcome |-> "none", data |-> JNull]

\* no call of getAnswer has been made
NoAnswerCall ==
    [done |-> FALSE, unit |-> "", task |-> "", subTask |-> "",
     result |-> JNull]

JsonIdle ==
    /\ questionBank = JNull
    /\ loadResult = NotCompleted
    /\ answerCall = NoAnswerCall

ArchivedIdle ==
    /\ cAnswer = EmptyStr
    /\ cClass = {}
    /\ GuardIdle
    /\ TextIdle
    /\ JsonIdle

(***************************************************************************)
(* Initial state: the script has just been injected (lines 24-27); the     *)
(* Tampermonkey values survive from earlier sessions on any page.          *)
(***************************************************************************)
InitScript ==
    /\ isAutomationRunning = FALSE
    /\ isProcessing = FALSE
    /\ urlObserver = FALSE
    /\ obsLastUrl = NoUrl
    /\ lastAnsweredSubTask = NoKey
    /\ gmLastProcessed \in
           {EmptyStr} \cup {TitleOf(p) : p \in {q \in Pages : FindTask(TitleOf(q)) # 0}}
    /\ gmLastUrl \in {NoUrl} \cup Pages
    /\ timers = 0
    /\ inv = [i \in Slots |-> IdleInv]
    /\ idFails = 0
    /\ href \in Pages
    /\ pageTabs \in SUBSET AllTabNames
    /\ answeredViews = {}
    /\ freshStart = FALSE
    /\ observers = 0
    /\ lastStep = "other"
    /\ AnswerIdle
    /\ HandlersIdle
    /\ ArchivedIdle

\* The sequencer is studied with the bank in place; what a run does while
\* the bank is empty (no quiz call answers) is among the behaviours of Spec,
\* and is studied on its own under SpecBank
Init == InitScript /\ bank = BankLoaded

\* A run of invocation i ends in record rec with globals g; when main() has
\* returned, its finally block has run
Resume(i, rec, g) ==
    /\ inv' = [inv EXCEPT ![i] = IF rec.pc = "idle" THEN IdleInv ELSE rec]
    /\ SetGlobals(IF rec.pc = "idle" THEN Finally(g) ELSE g)
    /\ lastStep' = IF rec = Cancelled THEN "cancel" ELSE "other"

(***************************************************************************)
(* Callers of main() and the environment.                                  *)
(***************************************************************************)
\* The user clicks the start/stop button (onclick = toggleAutomation)
UserToggle ==
    /\ UNCHANGED nonSeqVars
    /\ isAutomationRunning \/ timers < MaxTimers
    /\ SetGlobals(toggleAutomation(Globals, href))
    /\ lastStep' = "other"
    /\ UNCHANGED <<inv, idFails, href, pageTabs>>

\* The single-page application shows another menu entry (the user's click
\* or the page's own reaction to a submit or menu click)
PageNavigate ==
    /\ UNCHANGED nonSeqVars
    /\ \E p \in Pages \ {href} : href' = p
    /\ UNCHANGED <<isAutomationRunning, isProcessing, urlObserver, obsLastUrl,
                   lastAnsweredSubTask, gmLastProcessed, gmLastUrl, timers,
                   inv, idFails, pageTabs, answeredViews, freshStart,
                   observers>>
    /\ lastStep' = "other"

\* observerCallback, lines 459-467, on a mutation after a URL change
ObserverCallback ==
    /\ UNCHANGED nonSeqVars
    /\ urlObserver
    /\ href # obsLastUrl
    /\ obsLastUrl' = href
    /\ IF ~isProcessing /\ isAutomationRunning
       THEN timers < MaxTimers /\ timers' = timers + 1
       ELSE timers' = timers
    /\ UNCHANGED <<isAutomationRunning, isProcessing, urlObserver,
                   lastAnsweredSubTask, gmLastProcessed, gmLastUrl, inv,
                   idFails, href, pageTabs, answeredViews, freshStart,
                   observers>>
    /\ lastStep' = "observed"

\* Variant of GuardPasses: the run flag is not looked at
GuardIgnoresRunFlag(proc, run) == ~proc

\* The entry guard of main(), line 312
GuardPasses(proc, run) == ~(proc \/ ~run)

\* A setTimeout(main, 1500) callback fires: main() up to sleep(3000)
TimerFire ==
    /\ UNCHANGED nonSeqVars
    /\ timers > 0
    /\ timers' = timers - 1
    /\ IF GuardPasses(isProcessing, isAutomationRunning)
       THEN /\ InFlight # Slots
            /\ isProcessing' = TRUE
            /\ inv' = [inv EXCEPT ![FreeSlot] =
                          [IdleInv EXCEPT !.pc = "sleep3000",
                                          !.ctx = IF freshStart THEN "first"
                                                  ELSE "none"]]
            /\ freshStart' = FALSE
            /\ lastStep' = "other"
       ELSE /\ UNCHANGED <<isProcessing, inv, freshStart>>
            /\ lastStep' = "guard"
    /\ UNCHANGED <<isAutomationRunning, urlObserver, obsLastUrl,
                   lastAnsweredSubTask, gmLastProcessed, gmLastUrl, idFails,
                   href, pageTabs, answeredViews, observers>>

(***************************************************************************)
(* main(), lines 316-381.                                                  *)
(***************************************************************************)
\* Variant of IsStalled: the URL comparison inverted
IsStalledUrlDiffers(title, url, lastProcessed, lastUrl) ==
    title = lastProcessed /\ url # lastUrl

\* line 322: the stall test
IsStalled(title, url, lastProcessed, lastUrl) ==
    title = lastProcessed /\ url = lastUrl

\* Variant of CatchAndFinally: the catch block only logs
CatchOnlyLogs(g, url) == Finally(g)

\* lines 375-381: catch (log, toggleAutomation), then finally
CatchAndFinally(g, url) == Finally(toggleAutomation(g, url))

\* lines 318-358 after sleep(3000): read the label, stall test, task lookup,
\* and the start of the standalone handler or of the composite loop
MainRead(i) ==
    /\ UNCHANGED nonSeqVars
    /\ inv[i].pc = "sleep3000"
    /\ \E readable \in BOOLEAN :
        IF ~readable
        THEN \* line 319 throws: catch and finally run at once
             /\ isAutomationRunning \/ timers < MaxTimers
             /\ Resume(i, IdleInv, CatchAndFinally(Globals, href))
             /\ idFails' = IF idFails < 3 THEN idFails + 1 ELSE idFails
        ELSE
          LET title == TitleOf(href)
              rec0  == [inv[i] EXCEPT !.title = title, !.ctx = "none",
                                      !.stalled = (title = gmLastProcessed
                                                   /\ href = gmLastUrl)]
              g     == [Globals EXCEPT !.lastAns =
                           IF title # gmLastProcessed THEN NoKey ELSE @]
              task  == FindTask(title)
              rec1  == [rec0 EXCEPT !.task = task]
          IN  /\ idFails' = 0
              /\ IF IsStalled(title, href, gmLastProcessed, gmLastUrl)
                 THEN Resume(i, StartNavigate(rec0), Globals)
                 ELSE IF task = 0
                 THEN Resume(i, StartNavigate(rec0), g)
                 ELSE IF UNIT_STRUCTURE[task].type = "standalone"
                 THEN \E imm \in ImmChoices(UNIT_STRUCTURE[task].method,
                                            AnswerKey(title, ActiveSubTask(rec1)),
                                            g.lastAns) :
                        Resume(i, StartHandler(rec1, UNIT_STRUCTURE[task].method, imm,
                                               AnswerKey(title, ActiveSubTask(rec1)),
                                               g.run), g)
                 ELSE Resume(i, LoopFrom([rec1 EXCEPT !.tabs = pageTabs], 1, g.run), g)
    /\ UNCHANGED <<href, pageTabs>>

\* line 359 after sleep(2500): executeMethod for the sub-task just opened
TabSleepDone(i) ==
    /\ UNCHANGED nonSeqVars
    /\ inv[i].pc = "tabSleep"
    /\ LET rec    == inv[i]
           method == TaskOf(rec).children[rec.child].method
           key    == AnswerKey(TitleOf(href), ActiveSubTask(rec))
       IN  \E imm \in ImmChoices(method, key, lastAnsweredSubTask) :
              Resume(i, StartHandler(rec, method, imm, key, isAutomationRunning),
                     Globals)
    /\ UNCHANGED <<idFails, href, pageTabs>>

\* The handler the invocation is suspended in returns.  doAnswer records the
\* dedup key when it has applied an answer (lines 264-267), which it does
\* only if the bank is not empty (line 220).
HandlerDone(i) ==
    /\ UNCHANGED nonSeqVars
    /\ inv[i].pc = "handler"
    /\ \E didAnswer \in (IF MethodOf(inv[i]) = "quiz" /\ ~BankEmpty
                         THEN BOOLEAN ELSE {FALSE}) :
          Resume(i, AfterHandler(inv[i], isAutomationRunning),
                 IF didAnswer
                 THEN [Globals EXCEPT !.lastAns = inv[i].key,
                                      !.views = IF isAutomationRunning
                                                THEN @ \cup {inv[i].key} ELSE @]
                 ELSE Globals)
    /\ UNCHANGED <<idFails, href, pageTabs>>

(***************************************************************************)
(* completeAndNavigateTaskInternal(), lines 403-434, and what follows it.  *)
(***************************************************************************)
\* Variant of PersistAndNavigate: the navigation starts, nothing is persisted
NavigateUnpersisted(rec, g, url) == << StartNavigate(rec), g >>

\* lines 371-373: persist the label and the URL, start the navigation
PersistAndNavigate(rec, g, url) ==
    << StartNavigate(rec),
       [g EXCEPT !.gmLP = rec.title, !.gmLU = url] >>

\* The submit sequence has returned: line 363 (sleep 1500) after a sub-task
\* submit, lines 371-373 after the final one
SubmitReturn(i, rec, g, url) ==
    IF rec.ctx = "sub"
    THEN IF TaskOf(rec).type = "standalone"
         THEN Resume(i, FinalSubmit(rec), g)
         ELSE Resume(i, [rec EXCEPT !.pc = "subSleep"], g)
    ELSE Resume(i, PersistAndNavigate(rec, g, url)[1],
                   PersistAndNavigate(rec, g, url)[2])

\* lines 412-433: probe the submit selectors
SubmitProbe(i, rec) ==
    \E btn \in BOOLEAN :
        IF btn THEN Resume(i, [rec EXCEPT !.pc = "submitClicked"], Globals)
        ELSE SubmitReturn(i, rec, Globals, href)

\* lines 405-410 after sleep(1000): the next-question button
SubmitWaitDone(i) ==
    /\ UNCHANGED nonSeqVars
    /\ inv[i].pc = "submitWait"
    /\ \E nextQ \in BOOLEAN :
        IF nextQ THEN Resume(i, [inv[i] EXCEPT !.pc = "submitNextQ"], Globals)
        ELSE SubmitProbe(i, inv[i])
    /\ UNCHANGED <<idFails, href, pageTabs>>

\* after sleep(2000), line 409
SubmitNextQDone(i) ==
    /\ UNCHANGED nonSeqVars
    /\ inv[i].pc = "submitNextQ"
    /\ SubmitProbe(i, inv[i])
    /\ UNCHANGED <<idFails, href, pageTabs>>

\* lines 424-430 after sleep(1500): the confirmation dialog
SubmitClickedDone(i) ==
    /\ UNCHANGED nonSeqVars
    /\ inv[i].pc = "submitClicked"
    /\ \E confirm \in BOOLEAN :
        IF confirm THEN Resume(i, [inv[i] EXCEPT !.pc = "submitConfirm"], Globals)
        ELSE SubmitReturn(i, inv[i], Globals, href)
    /\ UNCHANGED <<idFails, href, pageTabs>>

\* after sleep(1500), line 428
SubmitConfirmDone(i) ==
    /\ UNCHANGED nonSeqVars
    /\ inv[i].pc = "submitConfirm"
    /\ SubmitReturn(i, inv[i], Globals, href)
    /\ UNCHANGED <<idFails, href, pageTabs>>

\* after sleep(1500), line 363: the next iteration of the composite loop
SubSleepDone(i) ==
    /\ UNCHANGED nonSeqVars
    /\ inv[i].pc = "subSleep"
    /\ Resume(i, LoopFrom(inv[i], inv[i].child + 1, isAutomationRunning), Globals)
    /\ UNCHANGED <<idFails, href, pageTabs>>

(***************************************************************************)
(* navigateToNextMainTask(), lines 438-453, then main() returns.           *)
(***************************************************************************)
NavDone(i) ==
    /\ UNCHANGED nonSeqVars
    /\ inv[i].pc = "navSleep"
    /\ \E located \in BOOLEAN :
        IF ~located
        THEN \* currentIndex = -1, line 442
             Resume(i, IdleInv, Globals) /\ UNCHANGED href
        ELSE IF href + 1 <= NumPages
        THEN \* click on the next menu entry, which the page follows or not
             /\ Resume(i, IdleInv, Globals)
             /\ \E follows \in BOOLEAN : href' = IF follows THEN href + 1 ELSE href
        ELSE \* the last entry: toggleAutomation(), line 452
             /\ isAutomationRunning \/ timers < MaxTimers
             /\ Resume(i, IdleInv, toggleAutomation(Globals, href))
             /\ UNCHANGED href
    /\ UNCHANGED <<idFails, pageTabs>>

Next ==
    \/ UserToggle
    \/ PageNavigate
    \/ ObserverCallback
    \/ TimerFire
    \/ \E i \in Slots : MainRead(i)
    \/ \E i \in Slots : TabSleepDone(i)
    \/ \E i \in Slots : HandlerDone(i)
    \/ \E i \in Slots : SubmitWaitDone(i)
    \/ \E i \in Slots : SubmitNextQDone(i)
    \/ \E i \in Slots : SubmitClickedDone(i)
    \/ \E i \in Slots : SubmitConfirmDone(i)
    \/ \E i \in Slots : SubSleepDone(i)
    \/ \E i \in Slots : NavDone(i)

Spec == Init /\ [][Next]_vars

(***************************************************************************)
(* The sequencer under the scheduling of the browser, from a fresh install *)
(* (nothing persisted) on the first menu entry, whose page shows every     *)
(* tab.  A timer callback that is due fires, a mutation after a URL change *)
(* is delivered to the observer, and every await of main() on a sleep or   *)
(* on a handler returns.  The user and the page are under no obligation.   *)
(***************************************************************************)
InitFresh ==
    /\ Init
    /\ gmLastProcessed = EmptyStr
    /\ gmLastUrl = NoUrl
    /\ href = 1
    /\ pageTabs = AllTabNames

\* The step of invocation i, whatever it is waiting for
MainStep(i) ==
    \/ MainRead(i)
    \/ TabSleepDone(i)
    \/ HandlerDone(i)
    \/ SubmitWaitDone(i)
    \/ SubmitNextQDone(i)
    \/ SubmitClickedDone(i)
    \/ SubmitConfirmDone(i)
    \/ SubSleepDone(i)
    \/ NavDone(i)

FairScheduling ==
    /\ WF_vars(TimerFire)
    /\ WF_vars(ObserverCallback)
    /\ \A i \in Slots : WF_vars(MainStep(i))

SpecLive == InitFresh /\ [][Next]_vars /\ FairScheduling

(***************************************************************************)
(* The sequencer together with loadRemoteQuestionBank (lines 64-80), from  *)
(* the injection of the script: the bank is empty and the request of line  *)
(* 151 is under way.                                                       *)
(***************************************************************************)
InitBank ==
    /\ InitScript
    /\ gmLastProcessed = EmptyStr
    /\ gmLastUrl = NoUrl
    /\ href = 1
    /\ pageTabs = AllTabNames
    /\ bank = BankRequested

\* what the callbacks of the request leave alone
bankFrame == <<isAutomationRunning, isProcessing, urlObserver, obsLastUrl,
               lastAnsweredSubTask, gmLastProcessed, gmLastUrl, timers, inv,
               idFails, href, pageTabs, answeredViews, freshStart, observers,
               ansVars,
               hVars, archVars>>

\* onload with status 200 and a text JSON.parse accepts, lines 71-74: the
\* bank of the course, which holds units
LoadSucceeds ==
    /\ bank.pending
    /\ bank' = BankLoaded
    /\ lastStep' = "other"
    /\ UNCHANGED bankFrame

\* onload with another status or an unparsable text, or onerror (lines 75-78):
\* the failure is logged, QUESTION_BANK keeps its value
LoadFails ==
    /\ bank.pending
    /\ bank' = [bank EXCEPT !.pending = FALSE]
    /\ lastStep' = "other"
    /\ UNCHANGED bankFrame

\* courseSelect.onchange, line 127: the user picks a course, a new request
\* is sent
CourseSelected ==
    /\ ~bank.pending
    /\ bank' = [bank EXCEPT !.pending = TRUE]
    /\ lastStep' = "other"
    /\ UNCHANGED bankFrame

NextBank ==
    \/ Next
    \/ LoadSucceeds
    \/ LoadFails
    \/ CourseSelected

SpecBank == InitBank /\ [][NextBank]_vars

(***************************************************************************)
(* The answering engine doAnswer() (lines 216-268) on one rendered view.   *)
(* Strings are sequences of one-character strings.                         *)
(***************************************************************************)
\* longest answer string drawn from the bank
MaxAnswerLen == 3
\* choice blocks, text areas and fill-in inputs on the page, all together
MaxElems == 2
\* doAnswer() calls on the same view
MaxCalls == 2

\* the characters of the class [A-Z] that answers and captions are drawn from
UpperCase == {"A", "B"}

\* the characters of the class \s
WhiteSpace == {" ", "\n"}

\* the characters of the class \d
Digits == {"1"}

\* letter answers, with separators and a character outside [A-Z\s]
ChoiceAlphabet == {"A", "B", " ", "\n", "x"}

\* numbered free-text lines
OrdinalAlphabet == {"1", ".", ")", " ", "\n", "x"}

Strings(S, n) == UNION {[1..k -> S] : k \in 0..n}

Min(a, b) == IF a <= b THEN a ELSE b

\* String.prototype.trim(), left part
RECURSIVE TrimStart(_)
TrimStart(s) ==
    IF s # <<>> /\ Head(s) \in WhiteSpace THEN TrimStart(Tail(s)) ELSE s

\* String.prototype.trim(), right part
RECURSIVE TrimEnd(_)
TrimEnd(s) ==
    IF s # <<>> /\ s[Len(s)] \in WhiteSpace
    THEN TrimEnd(SubSeq(s, 1, Len(s) - 1))
    ELSE s

Trim(s) == TrimEnd(TrimStart(s))

\* (?:\s*[A-Z])*$ of the pattern of line 231
RECURSIVE MatchLetterTail(_)
MatchLetterTail(s) ==
    \/ s = <<>>
    \/ LET t == TrimStart(s)
       IN  t # <<>> /\ Head(t) \in UpperCase /\ MatchLetterTail(Tail(t))

\* /^[A-Z](?:\s*[A-Z])*$/.test(s)
IsLetterAnswer(s) ==
    s # <<>> /\ Head(s) \in UpperCase /\ MatchLetterTail(Tail(s))

\* answers.trim().replace(/\s+/g, '')
AnswerLetters(s) == SelectSeq(Trim(s), LAMBDA c : c \notin WhiteSpace)

\* answers.split('\n')
RECURSIVE Split(_)
Split(s) ==
    IF s = <<>> THEN << <<>> >>
    ELSE LET r == Split(Tail(s))
         IN  IF Head(s) = "\n"
             THEN << <<>> >> \o r
             ELSE << <<Head(s)>> \o Head(r) >> \o Tail(r)

\* \d+ : the line without its leading digits
RECURSIVE DropDigits(_)
DropDigits(s) ==
    IF s # <<>> /\ Head(s) \in Digits THEN DropDigits(Tail(s)) ELSE s

\* \.? and \)? : the line without the optional character c
DropOptional(c, s) == IF s # <<>> /\ Head(s) = c THEN Tail(s) ELSE s

\* line.replace(/^\d+\.?\)?\s*/, '')
StripOrdinal(line) ==
    IF line # <<>> /\ Head(line) \in Digits
    THEN TrimStart(DropOptional(")", DropOptional(".", DropDigits(line))))
    ELSE line

\* answers.split('\n').map(line => line.replace(...).trim()).filter(Boolean)
AnswerLines(s) ==
    LET raw == Split(s)
        mapped == [k \in 1..Len(raw) |-> Trim(StripOrdinal(raw[k]))]
    IN  SelectSeq(mapped, LAMBDA l : l # <<>>)

\* An option of a choice block: its .caption text and its 'selected' class
Option(c, sel) == [caption |-> c, selected |-> sel]

\* The choice blocks of the page: options A and B, at most one selected
Blocks ==
    { <<Option("A", a), Option("B", b)>> : a \in BOOLEAN, b \in BOOLEAN }
        \ { <<Option("A", TRUE), Option("B", TRUE)>> }

\* The values an input may hold before the script runs
InputValues == {EmptyStr, <<"o">>}

\* The view that is rendered: the key doAnswer() remembers it by (line 266)
ViewKey == AnswerKey(TitleOf(1), "Part I")

\* a variant that matches on the caption alone
FirstMatchIgnoringSelected(block, letter) ==
    IF \E o \in 1..Len(block) : block[o].caption = letter
    THEN CHOOSE o \in 1..Len(block) :
            /\ block[o].caption = letter
            /\ \A p \in 1..(o - 1) : block[p].caption # letter
    ELSE 0

\* Lines 235-239: the first option of the block whose caption is the letter
\* and which is not selected; 0 if there is none
FirstMatch(block, letter) ==
    LET ok(o) == block[o].caption = letter /\ ~block[o].selected
    IN  IF \E o \in 1..Len(block) : ok(o)
        THEN CHOOSE o \in 1..Len(block) : ok(o) /\ \A p \in 1..(o - 1) : ~ok(p)
        ELSE 0

\* Lines 233-240: the first block index from i on at which a click happens
RECURSIVE NextClick(_, _, _)
NextClick(blocks, letters, i) ==
    IF i > Min(Len(blocks), Len(letters)) THEN 0
    ELSE IF FirstMatch(blocks[i], letters[i]) # 0 THEN i
    ELSE NextClick(blocks, letters, i + 1)

\* a variant that assigns whatever the input holds
NextInputAny(inputs, lines, i) ==
    IF i > Min(Len(inputs), Len(lines)) THEN 0 ELSE i

\* a variant that ends the loop at the first input that holds a value
NextEmptyOrStop(inputs, lines, i) ==
    IF i > Min(Len(inputs), Len(lines)) THEN 0
    ELSE IF inputs[i] = EmptyStr THEN i
    ELSE 0

\* Lines 243-251 and 254-262: the first input index from i on that is empty
RECURSIVE NextEmpty(_, _, _)
NextEmpty(inputs, lines, i) ==
    IF i > Min(Len(inputs), Len(lines)) THEN 0
    ELSE IF inputs[i] = EmptyStr THEN i
    ELSE NextEmpty(inputs, lines, i + 1)

\* The page's reaction to a click on option o: it becomes the selected one
ClickOption(block, o) ==
    [p \in 1..Len(block) |-> [block[p] EXCEPT !.selected = (p = o)]]

\* The state doAnswer() reads and writes
AnswerState ==
    [cq |-> choiceQuestions, ti |-> textInputs, fb |-> fillInBlanks,
     pc |-> apc, i |-> ai, answered |-> answered, last |-> lastAnsweredSubTask,
     clicks |-> clicks, writes |-> writes]

SetAnswerState(a) ==
    /\ choiceQuestions' = a.cq
    /\ textInputs' = a.ti
    /\ fillInBlanks' = a.fb
    /\ apc' = a.pc
    /\ ai' = a.i
    /\ answered' = a.answered
    /\ lastAnsweredSubTask' = a.last
    /\ clicks' = a.clicks
    /\ writes' = a.writes

\* Lines 231, 241, 252: the branch doAnswer() takes
BranchOf(a, ans) ==
    IF Len(a.cq) > 0 /\ IsLetterAnswer(Trim(ans)) THEN "choice"
    ELSE IF Len(a.ti) > 0 THEN "text"
    ELSE IF Len(a.fb) > 0 THEN "fill"
    ELSE "none"

\* Lines 264-267
Return(a, flag) ==
    [a EXCEPT !.pc = "idle", !.i = 0, !.answered = flag,
              !.last = IF flag THEN ViewKey ELSE @]

\* One run of a loop of doAnswer() from index 'from' to its next sleep or to
\* the return; 'flag' is the local variable answered
Advance(a, branch, ans, from, flag, call) ==
    IF branch = "choice"
    THEN LET letters == AnswerLetters(ans)
             j == NextClick(a.cq, letters, from)
             o == FirstMatch(a.cq[j], letters[j])
         IN  IF j = 0 THEN Return(a, flag)
             ELSE [a EXCEPT !.cq[j] = ClickOption(@, o),
                            !.pc = "choice", !.i = j, !.answered = flag,
                            !.clicks = Append(@,
                                [call |-> call, block |-> j, option |-> o,
                                 caption |-> a.cq[j][o].caption,
                                 wasSelected |-> a.cq[j][o].selected])]
    ELSE IF branch = "text"
    THEN LET lines == AnswerLines(ans)
             j == NextEmpty(a.ti, lines, from)
         IN  IF j = 0 THEN Return(a, flag)
             ELSE [a EXCEPT !.ti[j] = lines[j],
                            !.pc = "text", !.i = j, !.answered = flag,
                            !.writes = Append(@,
                                [call |-> call, kind |-> "text", index |-> j,
                                 value |-> lines[j], old |-> a.ti[j]])]
    ELSE IF branch = "fill"
    THEN LET lines == AnswerLines(ans)
             j == NextEmpty(a.fb, lines, from)
         IN  IF j = 0 THEN Return(a, flag)
             ELSE [a EXCEPT !.fb[j] = lines[j],
                            !.pc = "fill", !.i = j, !.answered = flag,
                            !.writes = Append(@,
                                [call |-> call, kind |-> "fill", index |-> j,
                                 value |-> lines[j], old |-> a.fb[j]])]
    ELSE Return(a, flag)

\* The sequencer's variables while one view is answered
SequencerParked ==
    /\ answeredViews = {}
    /\ freshStart = FALSE
    /\ lastStep = "other"
    /\ isAutomationRunning = TRUE
    /\ isProcessing = TRUE
    /\ urlObserver = TRUE
    /\ observers = 1
    /\ obsLastUrl = 1
    /\ gmLastProcessed = EmptyStr
    /\ gmLastUrl = NoUrl
    /\ timers = 0
    /\ inv = [i \in Slots |-> IdleInv]
    /\ idFails = 0
    /\ href = 1
    /\ pageTabs = {}
    /\ bank = BankLoaded

\* what the answering actions leave alone
nonAnsVars == <<isAutomationRunning, isProcessing, urlObserver, obsLastUrl,
                gmLastProcessed, gmLastUrl, timers, inv, idFails, href,
                pageTabs, answeredViews, freshStart, observers, lastStep,
                hVars, bank,
                archVars>>

InitAnswer ==
    /\ SequencerParked
    /\ HandlersIdle
    /\ ArchivedIdle
    /\ lastAnsweredSubTask = NoKey
    /\ answers \in Strings(ChoiceAlphabet, MaxAnswerLen)
                     \cup Strings(OrdinalAlphabet, MaxAnswerLen)
    /\ choiceQuestions \in Strings(Blocks, MaxElems)
    /\ textInputs \in Strings(InputValues, MaxElems)
    /\ fillInBlanks \in Strings(InputValues, MaxElems)
    /\ Len(choiceQuestions) + Len(textInputs) + Len(fillInBlanks) <= MaxElems
    /\ apc = "idle"
    /\ ai = 0
    /\ answered = FALSE
    /\ calls = 0
    /\ clicks = <<>>
    /\ writes = <<>>

\* Variant of DoAnswerCall: a view without an answer in the bank is recorded
\* as answered
DoAnswerRecordsMiss ==
    /\ apc = "idle"
    /\ calls < MaxCalls
    /\ calls' = calls + 1
    /\ IF lastAnsweredSubTask = ViewKey
       THEN SetAnswerState(AnswerState)
       ELSE IF answers = EmptyStr
       THEN SetAnswerState(Return(AnswerState, TRUE))
       ELSE SetAnswerState(Advance(AnswerState, BranchOf(AnswerState, answers),
                                   answers, 1, FALSE, calls + 1))
    /\ UNCHANGED <<answers, nonAnsVars>>

\* doAnswer() is called (lines 216-231): 'answered' or no answer returns at
\* once, otherwise the branch runs to its first sleep or to the return
DoAnswerCall ==
    /\ apc = "idle"
    /\ calls < MaxCalls
    /\ calls' = calls + 1
    /\ IF lastAnsweredSubTask = ViewKey \/ answers = EmptyStr
       THEN SetAnswerState(AnswerState)
       ELSE SetAnswerState(Advance(AnswerState, BranchOf(AnswerState, answers),
                                   answers, 1, FALSE, calls + 1))
    /\ UNCHANGED <<answers, nonAnsVars>>

\* The sleep after a click ends (line 237): answered = true; break; next i
ChoiceSleepDone ==
    /\ apc = "choice"
    /\ SetAnswerState(Advance(AnswerState, "choice", answers, ai + 1, TRUE,
                              calls))
    /\ UNCHANGED <<answers, calls, nonAnsVars>>

\* The sleep after a text area was assigned ends (lines 248-249)
TextSleepDone ==
    /\ apc = "text"
    /\ SetAnswerState(Advance(AnswerState, "text", answers, ai + 1, TRUE,
                              calls))
    /\ UNCHANGED <<answers, calls, nonAnsVars>>

\* The sleep after a fill-in input was assigned ends (lines 259-260)
FillSleepDone ==
    /\ apc = "fill"
    /\ SetAnswerState(Advance(AnswerState, "fill", answers, ai + 1, TRUE,
                              calls))
    /\ UNCHANGED <<answers, calls, nonAnsVars>>

\* main() on the same view before its label was persisted clears the key
\* (line 327), as does a start of the automation (line 180)
DedupCleared ==
    /\ apc = "idle"
    /\ calls < MaxCalls
    /\ lastAnsweredSubTask = ViewKey
    /\ lastAnsweredSubTask' = NoKey
    /\ UNCHANGED <<answers, choiceQuestions, textInputs, fillInBlanks, apc, ai,
                   answered, calls, clicks, writes, nonAnsVars>>

NextAnswer ==
    \/ DoAnswerCall
    \/ ChoiceSleepDone
    \/ TextSleepDone
    \/ FillSleepDone
    \/ DedupCleared

SpecAnswer == InitAnswer /\ [][NextAnswer]_vars

(***************************************************************************)
(* The task handlers handleVideoTask() (lines 270-287) and                 *)
(* handleVocabularyTask() (lines 295-308) and the submit sequence          *)
(* completeAndNavigateTaskInternal() (lines 403-434), one call of one of   *)
(* them on a bounded page.  hret is the state of the promise the call      *)
(* returned, hclicks the clicks the call has made.                         *)
(***************************************************************************)
\* longest video, in half seconds
MaxDuration == 5

\* let maxClicks = 50
VocMaxClicks == 50

\* HTMLMediaElement.readyState: HAVE_NOTHING .. HAVE_ENOUGH_DATA
ReadyStates == 0..4

\* video.duration > 2 ? video.duration - 1.5 : 0, in half seconds (line 278)
SeekTarget(d) == IF d > 4 THEN d - 3 ELSE 0

ButtonStates == {"none", "hidden", "other", "match"}

InitHandlers ==
    /\ SequencerParked
    /\ ArchivedIdle
    /\ lastAnsweredSubTask = NoKey
    /\ AnswerIdle
    /\ hkind \in {"video", "vocabulary", "submit"}
    /\ hpc = "call"
    /\ hret = "pending"
    /\ hclicks = 0
    /\ video \in IF hkind # "video" THEN {NoVideo}
                 ELSE {NoVideo} \cup
                      {[NoVideo EXCEPT !.present = TRUE, !.readyState = r,
                                       !.duration = d,
                                       !.currentTime = IF atEnd THEN d ELSE 0] :
                          r \in ReadyStates, d \in 0..MaxDuration,
                          atEnd \in BOOLEAN}
    /\ voc \in IF hkind # "vocabulary" THEN {NoVocabulary}
               ELSE {[wrapper |-> w, next |-> n, maxClicks |-> 0] :
                        w \in BOOLEAN, n \in BOOLEAN}
    /\ buttons \in IF hkind # "submit" THEN {NoSubmitPage}
               ELSE {[nextQ |-> q, sel |-> s, dialog |-> d] :
                        q \in {"none", "disabled", "enabled"},
                        s \in [1..3 -> ButtonStates], d \in BOOLEAN}

\* what the handler actions leave alone
handlerFrame == <<answers, choiceQuestions, textInputs, fillInBlanks, apc, ai,
                  answered, calls, clicks, writes, inv, idFails, href,
                  pageTabs, lastStep, bank, archVars>>

seqGlobals == <<isAutomationRunning, isProcessing, urlObserver, obsLastUrl,
                lastAnsweredSubTask, gmLastProcessed, gmLastUrl, timers,
                answeredViews, freshStart, observers>>

\* ------------------------------ video --------------------------------
\* onCanPlay up to its await (lines 277-279): seek, then video.play()
OnCanPlay(v) ==
    [v EXCEPT !.listener = FALSE, !.currentTime = SeekTarget(v.duration),
              !.play = "pending"]

\* The promise executor up to its first await (lines 275-285): with a
\* playable video it awaits onCanPlay() before it reaches setTimeout
Executor(v) ==
    IF v.readyState >= 2
    THEN OnCanPlay([v EXCEPT !.muted = TRUE])
    ELSE [v EXCEPT !.muted = TRUE, !.listener = TRUE, !.ceiling = TRUE]

\* handleVideoTask() is called
HandleVideoTask ==
    /\ hkind = "video"
    /\ hpc = "call"
    /\ IF ~video.present
       THEN hpc' = "done" /\ hret' = "true" /\ UNCHANGED video
       ELSE /\ video' = Executor(video)
            /\ hpc' = IF video.readyState >= 2 THEN "playEntry" ELSE "listening"
            /\ UNCHANGED hret
    /\ UNCHANGED <<hkind, hclicks, voc, buttons, handlerFrame, seqGlobals>>

\* The promise of video.play() settles (fulfilled or rejected, line 279):
\* onCanPlay resolves the handler's promise (line 281); in the entry path
\* the executor then goes on to setTimeout (line 285)
PlaySettles ==
    /\ hkind = "video"
    /\ video.play = "pending"
    /\ video' = [video EXCEPT !.play = "settled",
                              !.ceiling = IF hpc = "playEntry" THEN TRUE ELSE @]
    /\ hpc' = "done"
    /\ hret' = "true"
    /\ UNCHANGED <<hkind, hclicks, voc, buttons, handlerFrame, seqGlobals>>

\* The video fires 'canplay' and the registered listener runs (line 284)
CanPlayFires ==
    /\ hkind = "video"
    /\ video.listener
    /\ video' = [OnCanPlay(video) EXCEPT !.readyState =
                                            IF @ < 2 THEN 2 ELSE @]
    /\ hpc' = "playEvent"
    /\ UNCHANGED <<hkind, hret, hclicks, voc, buttons, handlerFrame, seqGlobals>>

\* The 5000 ms timer of line 285 fires: resolve(true)
CeilingExpires ==
    /\ hkind = "video"
    /\ video.ceiling
    /\ video' = [video EXCEPT !.ceiling = FALSE]
    /\ hret' = "true"
    /\ UNCHANGED <<hkind, hpc, hclicks, voc, buttons, handlerFrame, seqGlobals>>

\* ---------------------------- vocabulary ------------------------------
\* a variant of the loop without the ceiling of 50 clicks
VocabularyLoopUnbounded(v, running, n) ==
    IF ~running THEN <<"done", "false", v, n>>
    ELSE IF ~v.next THEN <<"done", "true", v, n>>
    ELSE <<"vocSleep", "pending", v, n + 1>>

\* Lines 299-304, one pass of the loop up to the sleep or to the return:
\* the position, the result, the locals and the clicks made
VocabularyLoop(v, running, n) ==
    IF ~(v.maxClicks > 0) THEN <<"done", "true", [v EXCEPT !.maxClicks = @ - 1], n>>
    ELSE IF ~running THEN <<"done", "false", [v EXCEPT !.maxClicks = @ - 1], n>>
    ELSE IF ~v.next THEN <<"done", "true", [v EXCEPT !.maxClicks = @ - 1], n>>
    ELSE <<"vocSleep", "pending", [v EXCEPT !.maxClicks = @ - 1], n + 1>>

\* The page after a click on 'next': another card follows or the button is
\* disabled
AfterNextClick(v, more) == [v EXCEPT !.next = more]

VocabularyStep(v) ==
    LET r == VocabularyLoop(v, isAutomationRunning, hclicks)
    IN  /\ hpc' = r[1]
        /\ hret' = r[2]
        /\ hclicks' = r[4]
        /\ \E more \in BOOLEAN :
              voc' = IF r[4] > hclicks THEN AfterNextClick(r[3], more) ELSE r[3]

\* handleVocabularyTask() is called (lines 296-304)
HandleVocabularyTask ==
    /\ hkind = "vocabulary"
    /\ hpc = "call"
    /\ IF ~voc.wrapper
       THEN hpc' = "done" /\ hret' = "true" /\ UNCHANGED <<hclicks, voc>>
       ELSE VocabularyStep([voc EXCEPT !.maxClicks = VocMaxClicks])
    /\ UNCHANGED <<hkind, video, buttons, handlerFrame, seqGlobals>>

\* The sleep of line 304 ends: the next pass of the loop
VocabularySleepDone ==
    /\ hkind = "vocabulary"
    /\ hpc = "vocSleep"
    /\ VocabularyStep(voc)
    /\ UNCHANGED <<hkind, video, buttons, handlerFrame, seqGlobals>>

\* The user clicks the stop button while the handler is suspended
StopDuringHandler ==
    /\ hkind = "vocabulary"
    /\ hpc = "vocSleep"
    /\ isAutomationRunning
    /\ SetGlobals(toggleAutomation(Globals, href))
    /\ UNCHANGED <<hkind, hpc, hret, hclicks, video, voc, buttons, handlerFrame>>

\* ------------------------------ submit --------------------------------
\* Lines 418-420: the first selector whose element is visible and carries a
\* submit text; 0 if there is none
RECURSIVE FirstSubmitButton(_, _)
FirstSubmitButton(sel, k) ==
    IF k > Len(sel) THEN 0
    ELSE IF sel[k] = "match" THEN k
    ELSE FirstSubmitButton(sel, k + 1)

\* Lines 412-433 up to the sleep after the click or to return false
SubmitButtons ==
    IF FirstSubmitButton(buttons.sel, 1) # 0
    THEN hpc' = "sleep1500" /\ hclicks' = hclicks + 1 /\ UNCHANGED hret
    ELSE hpc' = "done" /\ hret' = "false" /\ UNCHANGED hclicks

\* completeAndNavigateTaskInternal() is called: await sleep(1000)
CompleteAndNavigate ==
    /\ hkind = "submit"
    /\ hpc = "call"
    /\ hpc' = "sleep1000"
    /\ UNCHANGED <<hkind, hret, hclicks, video, voc, buttons, handlerFrame,
                   seqGlobals>>

\* Lines 405-410: the next-question button, clicked if present and enabled
NextQuestionStep ==
    /\ hkind = "submit"
    /\ hpc = "sleep1000"
    /\ IF buttons.nextQ = "enabled"
       THEN hpc' = "sleep2000" /\ hclicks' = hclicks + 1 /\ UNCHANGED hret
       ELSE SubmitButtons
    /\ UNCHANGED <<hkind, video, voc, buttons, handlerFrame, seqGlobals>>

\* after sleep(2000), line 409
SubmitButtonsStep ==
    /\ hkind = "submit"
    /\ hpc = "sleep2000"
    /\ SubmitButtons
    /\ UNCHANGED <<hkind, video, voc, buttons, handlerFrame, seqGlobals>>

\* Lines 424-430 after sleep(1500): the confirmation dialog
ConfirmationStep ==
    /\ hkind = "submit"
    /\ hpc = "sleep1500"
    /\ IF buttons.dialog
       THEN hpc' = "sleepConfirm" /\ hclicks' = hclicks + 1 /\ UNCHANGED hret
       ELSE hpc' = "done" /\ hret' = "true" /\ UNCHANGED hclicks
    /\ UNCHANGED <<hkind, video, voc, buttons, handlerFrame, seqGlobals>>

\* after sleep(1500), line 428: return true
ConfirmedReturn ==
    /\ hkind = "submit"
    /\ hpc = "sleepConfirm"
    /\ hpc' = "done"
    /\ hret' = "true"
    /\ UNCHANGED <<hkind, hclicks, video, voc, buttons, handlerFrame, seqGlobals>>

NextHandlers ==
    \/ HandleVideoTask
    \/ PlaySettles
    \/ CanPlayFires
    \/ CeilingExpires
    \/ HandleVocabularyTask
    \/ VocabularySleepDone
    \/ StopDuringHandler
    \/ CompleteAndNavigate
    \/ NextQuestionStep
    \/ SubmitButtonsStep
    \/ ConfirmationStep
    \/ ConfirmedReturn

\* The script's own steps and its timers are taken when they are due; the
\* media element (PlaySettles, CanPlayFires) and the user are not obliged
FairHandlers ==
    /\ WF_vars(HandleVideoTask)
    /\ WF_vars(CeilingExpires)
    /\ WF_vars(HandleVocabularyTask)
    /\ WF_vars(VocabularySleepDone)
    /\ WF_vars(CompleteAndNavigate)
    /\ WF_vars(NextQuestionStep)
    /\ WF_vars(SubmitButtonsStep)
    /\ WF_vars(ConfirmationStep)
    /\ WF_vars(ConfirmedReturn)

SpecHandlers == InitHandlers /\ [][NextHandlers]_vars /\ FairHandlers

(***************************************************************************)
(* The answer-type test of the archived variants: the test script          *)
(* (passed/tests/test_script.js), the simplified script, its archived copy *)
(* (part_003) and the full script (part_004).  Each applies               *)
(*   answer.match(/^[ABCD\s]+$/), then                                     *)
(*   answer.includes('\n') && answer.match(/^\d+<mark>/m)                  *)
(* with its own <mark>.                                                    *)
(***************************************************************************)
\* longest answer string classified
MaxClassLen == 4

ClassAlphabet == {"A", " ", "\n", "1", ".", ")", "x"}

Variants == {"test", "simplified", "archived", "full"}

\* The character class after \d+ in the variant's second test
MarksOf(v) ==
    IF v = "test" THEN {"."}
    ELSE IF v = "simplified" THEN {")"}
    ELSE {".", ")"}

\* /^[ABCD\s]+$/ without the m flag: the whole string, at least one character
MatchesChoice(s) ==
    /\ s # <<>>
    /\ \A k \in 1..Len(s) : s[k] \in {"A", "B", "C", "D"} \cup WhiteSpace

\* ^ with the m flag: the start of the string and after each line break
LineStarts(s) == {k \in 1..Len(s) : k = 1 \/ s[k - 1] = "\n"}

\* /^\d+<mark>/m
MatchesOrdinal(s, marks) ==
    \E p \in LineStarts(s) : \E q \in (p + 1)..Len(s) :
        /\ \A k \in p..(q - 1) : s[k] \in Digits
        /\ s[q] \in marks

\* The if / else if / else chain of the variant
Classify(s, marks) ==
    IF MatchesChoice(s) THEN "choice"
    ELSE IF Includes(s, <<"\n">>) /\ MatchesOrdinal(s, marks) THEN "fill"
    ELSE "text"

InitClassify ==
    /\ SequencerParked
    /\ lastAnsweredSubTask = NoKey
    /\ AnswerIdle
    /\ HandlersIdle
    /\ cAnswer \in Strings(ClassAlphabet, MaxClassLen)
    /\ cClass = {}
    /\ GuardIdle
    /\ TextIdle
    /\ JsonIdle

\* Variant v classifies the answer
ClassifyIn(v) ==
    /\ <<v, Classify(cAnswer, MarksOf(v))>> \notin cClass
    /\ cClass' = cClass \cup {<<v, Classify(cAnswer, MarksOf(v))>>}
    /\ UNCHANGED <<cAnswer, guardVars, textVars, jsonVars, seqVars, ansVars,
                   hVars, bank>>

NextClassify == \E v \in Variants : ClassifyIn(v)

SpecClassify == InitClassify /\ [][NextClassify]_vars

(***************************************************************************)
(* processCurrentPage() of the archived scripts and the URL polling of the *)
(* AutoJS v3.2 script (SpecArchived).  One script is installed; its button *)
(* and its timers call processCurrentPage, each call running to its next   *)
(* await in one step.                                                      *)
(***************************************************************************)
GuardVariants == {"simplified", "archived", "full", "autojs"}

\* what these actions leave alone
archFrame == <<cAnswer, cClass, textVars, jsonVars, seqVars, ansVars, hVars,
               bank>>

pollVars == <<v3Running, v3Loads, v3Chains, v3Timers>>

InitArchived ==
    /\ SequencerParked
    /\ lastAnsweredSubTask = NoKey
    /\ AnswerIdle
    /\ HandlersIdle
    /\ cAnswer = EmptyStr
    /\ cClass = {}
    /\ variant \in GuardVariants
    /\ guardFlag = FALSE
    /\ pcp = [i \in PcpSlots |-> "idle"]
    /\ returned = {}
    /\ v3Running = FALSE
    /\ v3Loads = 0
    /\ v3Chains = 0
    /\ v3Timers = 0
    /\ TextIdle
    /\ JsonIdle

PcpInFlight == {i \in PcpSlots : pcp[i] # "idle"}

\* Variant of FlagOnReturn: the no-answer return forgets the flag
FlagOnReturnNoAnswer(path, flag) == IF path = "noAnswer" THEN flag ELSE FALSE

\* The guard flag after a return past the guard: every return resets it,
\* either itself or through the finally block
FlagOnReturn(path, flag) == FALSE

\* Invocation i returns by the given path
PcpReturn(i, path) ==
    /\ pcp' = [pcp EXCEPT ![i] = "idle"]
    /\ guardFlag' = FlagOnReturn(path, guardFlag)
    /\ returned' = returned \cup {path}

\* processCurrentPage() from its entry to its first await.  The full version
\* calls PopupHandler.handlePopups() before it waits, inside the try block.
processCurrentPage ==
    IF guardFlag
    THEN /\ returned' = returned \cup {"guard"}
         /\ UNCHANGED <<guardFlag, pcp>>
    ELSE \E i \in PcpSlots \ PcpInFlight :
         \E throws \in (IF variant = "full" THEN BOOLEAN ELSE {FALSE}) :
            IF throws
            THEN /\ guardFlag' = FlagOnReturn("exception", TRUE)
                 /\ returned' = returned \cup {"exception"}
                 /\ UNCHANGED pcp
            ELSE /\ guardFlag' = TRUE
                 /\ pcp' = [pcp EXCEPT ![i] = "pageLoad"]
                 /\ UNCHANGED returned

\* The user clicks the button that processes the current page
ProcessButton ==
    /\ processCurrentPage
    /\ UNCHANGED <<variant, pollVars, archFrame>>

\* What the page shows when the invocation looks at it after the wait
PageOutcomes ==
    IF variant = "autojs" THEN {"throw", "video", "questions"}
    ELSE {"throw", "video", "noQuestions", "noAnswer", "fill", "text"}

\* The first wait is over: the page is inspected
PageLoadDone(i) ==
    /\ pcp[i] = "pageLoad"
    /\ \E o \in PageOutcomes :
        CASE o = "throw"       -> PcpReturn(i, "exception")
          [] o = "video"       -> /\ pcp' = [pcp EXCEPT ![i] = "video"]
                                  /\ UNCHANGED <<guardFlag, returned>>
          [] o = "questions"   -> /\ pcp' = [pcp EXCEPT ![i] = "questions"]
                                  /\ UNCHANGED <<guardFlag, returned>>
          [] o = "noQuestions" -> PcpReturn(i, "noQuestions")
          [] o = "noAnswer"    -> PcpReturn(i, "noAnswer")
          [] o = "fill"        -> /\ pcp' = [pcp EXCEPT ![i] = "fill"]
                                  /\ UNCHANGED <<guardFlag, returned>>
          [] o = "text"        -> /\ pcp' = [pcp EXCEPT ![i] =
                                         IF variant = "full" THEN "fill"
                                         ELSE "answerFill"]
                                  /\ UNCHANGED <<guardFlag, returned>>
    /\ UNCHANGED <<variant, pollVars, archFrame>>

\* await handleVideo() returns or throws
VideoHandled(i) ==
    /\ pcp[i] = "video"
    /\ \E throws \in BOOLEAN :
          PcpReturn(i, IF throws THEN "exception" ELSE "video")
    /\ UNCHANGED <<variant, pollVars, archFrame>>

\* the awaited answer handler returns or throws
FillDone(i) ==
    /\ pcp[i] = "fill"
    /\ \E throws \in BOOLEAN :
          IF throws THEN PcpReturn(i, "exception")
          ELSE /\ pcp' = [pcp EXCEPT ![i] = "answerFill"]
               /\ UNCHANGED <<guardFlag, returned>>
    /\ UNCHANGED <<variant, pollVars, archFrame>>

\* the wait before the submit is over; the submit button is clicked if shown
AnswerFillDone(i) ==
    /\ pcp[i] = "answerFill"
    /\ \E throws \in BOOLEAN :
          PcpReturn(i, IF throws THEN "exception" ELSE "success")
    /\ UNCHANGED <<variant, pollVars, archFrame>>

\* AutoJS v3.2: await processQuestions() returns or throws
QuestionsDone(i) ==
    /\ pcp[i] = "questions"
    /\ \E throws \in BOOLEAN :
          PcpReturn(i, IF throws THEN "exception" ELSE "success")
    /\ UNCHANGED <<variant, pollVars, archFrame>>

\* ---------------------- AutoJS v3.2: URL polling ------------------------
\* stopAutomation(): the flag is cleared; urlObserver is never assigned in
\* this script, so nothing is disconnected and no timer is cleared
stopAutomation == v3Running' = FALSE

\* The start button (enabled while automation is off): startAutomation() up
\* to await loadQuestionBank()
StartButton ==
    /\ variant = "autojs"
    /\ ~v3Running
    /\ v3Loads < MaxLoads
    /\ v3Running' = TRUE
    /\ v3Loads' = v3Loads + 1
    /\ UNCHANGED <<variant, guardFlag, pcp, returned, v3Chains, v3Timers,
                   archFrame>>

\* The stop button (enabled while automation is on)
StopButton ==
    /\ variant = "autojs"
    /\ v3Running
    /\ stopAutomation
    /\ UNCHANGED <<variant, guardFlag, pcp, returned, v3Loads, v3Chains,
                   v3Timers, archFrame>>

\* startUrlMonitoring(): a new closure, and its checkUrl() called once.  The
\* URL has not changed since the closure read it, so the call only tests the
\* flag and arms its timer.
startUrlMonitoring ==
    /\ v3Chains' = IF v3Running THEN v3Chains + 1 ELSE v3Chains
    /\ UNCHANGED v3Running

\* loadQuestionBank() settles and startAutomation() goes on
LoadSettles ==
    /\ v3Loads > 0
    /\ v3Loads' = v3Loads - 1
    /\ \E loaded \in BOOLEAN :
          IF loaded
          THEN (~v3Running \/ v3Chains < MaxChains) /\ startUrlMonitoring
          ELSE stopAutomation /\ UNCHANGED v3Chains
    /\ UNCHANGED <<variant, guardFlag, pcp, returned, v3Timers, archFrame>>

\* A setTimeout(checkUrl, 2000) callback fires: the chain ends if the flag is
\* off, else it schedules processCurrentPage on a new URL and re-arms
CheckUrlFires ==
    /\ v3Chains > 0
    /\ IF ~v3Running
       THEN v3Chains' = v3Chains - 1 /\ UNCHANGED v3Timers
       ELSE /\ UNCHANGED v3Chains
            /\ \E urlChanged \in BOOLEAN :
                  IF urlChanged
                  THEN v3Timers < MaxPcpTimers /\ v3Timers' = v3Timers + 1
                  ELSE UNCHANGED v3Timers
    /\ UNCHANGED <<variant, guardFlag, pcp, returned, v3Running, v3Loads,
                   archFrame>>

\* A setTimeout(processCurrentPage, 3000) callback fires
PcpTimerFires ==
    /\ v3Timers > 0
    /\ v3Timers' = v3Timers - 1
    /\ processCurrentPage
    /\ UNCHANGED <<variant, v3Running, v3Loads, v3Chains, archFrame>>

NextArchived ==
    \/ ProcessButton
    \/ \E i \in PcpSlots : PageLoadDone(i)
    \/ \E i \in PcpSlots : VideoHandled(i)
    \/ \E i \in PcpSlots : FillDone(i)
    \/ \E i \in PcpSlots : AnswerFillDone(i)
    \/ \E i \in PcpSlots : QuestionsDone(i)
    \/ StartButton
    \/ StopButton
    \/ LoadSettles
    \/ CheckUrlFires
    \/ PcpTimerFires

SpecArchived == InitArchived /\ [][NextArchived]_vars

(***************************************************************************)
(* The text bank of the AutoJS v3.2 script: findAnswerInQuestionBank() on  *)
(* a fetched text (SpecTextBank).  The text is a sequence of lines joined  *)
(* by line feeds; the call is made with a unit, a task name and a sub-task *)
(* name.                                                                   *)
(***************************************************************************)
MaxBankLines == 4

Unit1 == <<"U", "n", "i", "t", " ", "1">>
Unit2 == <<"U", "n", "i", "t", " ", "2">>
UnitTest == <<"U", "n", "i", "t", " ", "t", "e", "s", "t">>
IExplore1Before == <<"i", "E", "x", "p", "l", "o", "r", "e", " ", "1", ":", " ", "L", "e", "a", "r", "n", "i", "n", "g", " ", "b", "e", "f", "o", "r", "e", " ", "c", "l", "a", "s", "s">>
WarmUp == <<"W", "a", "r", "m", " ", "u", "p">>
PartI == <<"P", "a", "r", "t", " ", "I">>
PartII == <<"P", "a", "r", "t", " ", "I", "I">>
AnswerAB == <<"A", " ", "B">>
AnswerC == <<"C">>

\* the units getCurrentPageInfo() derives from the hash, lines 257-258
PageUnits == {Unit1, Unit2}

\* task names getCurrentPageInfo() produces, lines 261-268 (two of the five)
ProducedTasks == {IExplore1Before, UnitTest}

\* the task names a call is made with: the produced ones and one the bank
\* text may use besides
QueryTasks == ProducedTasks \cup {WarmUp}

QuerySubTasks == {PartI, PartII}

\* a line 'S: a'
SubTaskLine(st, a) == st \o <<":", " ">> \o a

\* the lines a bank text is made of
BankLines ==
    PageUnits \cup QueryTasks
        \cup {SubTaskLine(PartI, AnswerAB), SubTaskLine(PartII, AnswerC)}

\* Array.prototype.join('\n')
RECURSIVE JoinLines(_)
JoinLines(ls) ==
    IF ls = <<>> THEN <<>>
    ELSE IF Len(ls) = 1 THEN ls[1]
    ELSE ls[1] \o <<"\n">> \o JoinLines(Tail(ls))

\* String.prototype.split(sep) for a one-character separator
RECURSIVE SplitAt(_, _)
SplitAt(s, sep) ==
    IF s = <<>> THEN << <<>> >>
    ELSE LET r == SplitAt(Tail(s), sep)
         IN  IF Head(s) = sep
             THEN << <<>> >> \o r
             ELSE << <<Head(s)>> \o Head(r) >> \o Tail(r)

\* String.prototype.startsWith
StartsWith(s, prefix) ==
    Len(s) >= Len(prefix) /\ SubSeq(s, 1, Len(prefix)) = prefix

NullAnswer == [found |-> FALSE, answer |-> <<>>]

\* answer || null, with answer = line.split(':')[1]?.trim()
AnswerOrNull(parts) ==
    LET answer == IF Len(parts) >= 2 THEN Trim(parts[2]) ELSE <<>>
    IN  IF answer = <<>> THEN NullAnswer
        ELSE [found |-> TRUE, answer |-> answer]

\* line 147: what the loop takes for a task header inside the unit
IsTaskHeader(line) ==
    /\ line # <<>>
    /\ ~StartsWith(line, <<"U", "n", "i", "t", " ">>)
    /\ ~Includes(line, <<":">>)

\* the loop of lines 139-159 from line i on
RECURSIVE ScanLines(_, _, _, _, _, _, _)
ScanLines(lines, i, currentUnit, currentTask, unit, task, subTask) ==
    IF i > Len(lines) THEN NullAnswer
    ELSE LET line == Trim(lines[i])
         IN  IF StartsWith(line, <<"U", "n", "i", "t", " ">>)
             THEN ScanLines(lines, i + 1, line, currentTask, unit, task, subTask)
             ELSE IF currentUnit = unit /\ IsTaskHeader(line)
             THEN ScanLines(lines, i + 1, currentUnit, line, unit, task, subTask)
             ELSE IF /\ currentUnit = unit
                     /\ currentTask = task
                     /\ Includes(line, <<":">>)
                     /\ Trim(SplitAt(line, ":")[1]) = subTask
             THEN AnswerOrNull(SplitAt(line, ":"))
             ELSE ScanLines(lines, i + 1, currentUnit, currentTask, unit, task,
                            subTask)

\* findAnswerInQuestionBank(unit, task, subTask), lines 131-162
findAnswerInQuestionBank(content, unit, task, subTask) ==
    IF ~content.loaded \/ content.text = <<>> THEN NullAnswer
    ELSE ScanLines(SplitAt(content.text, "\n"), 1, <<>>, <<>>, unit, task,
                   subTask)

InitTextBank ==
    /\ SequencerParked
    /\ lastAnsweredSubTask = NoKey
    /\ AnswerIdle
    /\ HandlersIdle
    /\ cAnswer = EmptyStr
    /\ cClass = {}
    /\ GuardIdle
    /\ JsonIdle
    /\ questionBankContent \in
          {NotLoaded} \cup
          {[loaded |-> TRUE, text |-> JoinLines(ls)] :
               ls \in Strings(BankLines, MaxBankLines)}
    /\ lookupCall = NoLookup

\* processQuestion() looks an answer up for the page it is on
Lookup(unit, task, subTask) ==
    /\ ~lookupCall.done
    /\ LET r == findAnswerInQuestionBank(questionBankContent, unit, task,
                                         subTask)
       IN  lookupCall' = [done |-> TRUE, unit |-> unit, task |-> task,
                          subTask |-> subTask, found |-> r.found,
                          answer |-> r.answer]
    /\ UNCHANGED <<questionBankContent, cAnswer, cClass, guardVars, jsonVars,
                   seqVars, ansVars, hVars, bank>>

NextTextBank ==
    \E unit \in PageUnits, task \in QueryTasks, subTask \in QuerySubTasks :
        Lookup(unit, task, subTask)

SpecTextBank == InitTextBank /\ [][NextTextBank]_vars

(***************************************************************************)
(* The JSON bank of the v1/v2 scripts: QuestionBankManager of part_004     *)
(* (SpecJsonBank).  loadQuestionBank() completes once; getAnswer() is      *)
(* called before and after.                                                *)
(***************************************************************************)
\* a value used as a condition
Truthy(v) == v.kind = "object" \/ (v.kind = "string" /\ v.val # "")

\* the property access v[k]
Prop(v, k) ==
    IF v.kind \in {"null", "undefined", "throw"} THEN Thrown
    ELSE IF v.kind = "object" /\ k \in DOMAIN v.fields THEN v.fields[k]
    ELSE JUndefined

\* QuestionBankManager.builtinData, lines 163-178
builtinData ==
    JObj([u \in {"Unit 1"} |-> JObj(
        [t \in {"iExplore 1: Learning before class",
                "iExplore 1: Reviewing after class", "Unit test"} |->
            IF t = "iExplore 1: Learning before class"
            THEN JObj([st \in {"Reading comprehension",
                               "Dealing with vocabulary"} |->
                          IF st = "Reading comprehension"
                          THEN JStr("A B A B A")
                          ELSE JStr("A B A A A B")])
            ELSE IF t = "iExplore 1: Reviewing after class"
            THEN JObj([st \in {"Application"} |->
                          JStr("1. To say is easier than to do.\n2. Mary wanted to make a lot of money, buy stock, and retire early.\n3. She stayed up late either studying her English or going to parties.")])
            ELSE JObj([st \in {"Part I", "Part II"} |->
                          IF st = "Part I"
                          THEN JStr("1) prevails\n2) a variety of\n3) interact\n4) hanging out\n5) scale\n6) In contrast\n7) crucial\n8) engage\n9) in person\n10) directly")
                          ELSE JStr("B A C B A A")])])])

\* The sub-task keys of a remote task and the answer each carries
RemoteSubKeys == {"Reading comprehension", "Part I", "Extra"}

RemoteAnswer(st) ==
    IF st = "Reading comprehension" THEN "B A"
    ELSE IF st = "Part I" THEN "1) x"
    ELSE "free"

\* what a remote bank has under a task: an object of sub-tasks, some with an
\* empty answer, or a plain string
RemoteTaskValues ==
    {JStr("text")} \cup
    {JObj([st \in ks |-> IF st \in es THEN JStr("") ELSE JStr(RemoteAnswer(st))]) :
        ks \in SUBSET RemoteSubKeys, es \in SUBSET RemoteSubKeys}

\* what it has under a unit: the task 'Unit test', nothing, or null
RemoteUnitValues ==
    {JNull, JObj(<<>>)} \cup
    {JObj([t \in {"Unit test"} |-> tv]) : tv \in RemoteTaskValues}

RemoteUnits == {"Unit 1", "Unit 2"}

\* the values response.json() resolves to
RemoteData ==
    {JNull} \cup
    {JObj(f) : f \in UNION {[us -> RemoteUnitValues] :
                               us \in SUBSET RemoteUnits}}

\* the ways the try block of loadQuestionBank() fails
LoadFailures == {"networkError", "notOk", "invalidJson"}

\* the own enumerable properties the spread syntax copies
Spread(v) == IF v.kind = "object" THEN v.fields ELSE <<>>

\* Variant of MergeBanks: the built-in units win
MergeBuiltinWins(builtin, data) ==
    JObj([u \in DOMAIN Spread(builtin) \cup DOMAIN Spread(data) |->
             IF u \in DOMAIN Spread(builtin) THEN Spread(builtin)[u]
             ELSE Spread(data)[u]])

\* { ...builtinData, ...data }, line 189
MergeBanks(builtin, data) ==
    JObj([u \in DOMAIN Spread(builtin) \cup DOMAIN Spread(data) |->
             IF u \in DOMAIN Spread(data) THEN Spread(data)[u]
             ELSE Spread(builtin)[u]])

\* Variant of commonSubTasks: 'Part I' is tried first
commonSubTasksPartFirst ==
    <<"Part I", "Reading comprehension", "Dealing with vocabulary",
      "Application", "Part II", "Part III">>

\* lines 213-220
commonSubTasks ==
    <<"Reading comprehension", "Dealing with vocabulary", "Application",
      "Part I", "Part II", "Part III">>

\* lines 222-226: the first common sub-task the task has, from index i on
RECURSIVE FirstCommon(_, _)
FirstCommon(taskData, i) ==
    IF i > Len(commonSubTasks) THEN JUndefined
    ELSE IF Truthy(Prop(taskData, commonSubTasks[i]))
    THEN Prop(taskData, commonSubTasks[i])
    ELSE FirstCommon(taskData, i + 1)

\* what getAnswer does with the task's data, lines 206-234
AnswerOfTask(taskData, subTask) ==
    IF subTask # "" /\ Truthy(Prop(taskData, subTask))
    THEN Prop(taskData, subTask)
    ELSE IF FirstCommon(taskData, 1) # JUndefined
    THEN FirstCommon(taskData, 1)
    ELSE IF taskData.kind = "string" THEN taskData
    ELSE JNull

\* QuestionBankManager.getAnswer(unit, task, subTask), lines 201-234; the
\* default null of subTask is the empty string here, both being falsy
getAnswer(qb, unit, task, subTask) ==
    IF ~Truthy(qb) THEN JNull
    ELSE IF ~Truthy(Prop(qb, unit)) THEN JNull
    ELSE IF ~Truthy(Prop(Prop(qb, unit), task)) THEN JNull
    ELSE AnswerOfTask(Prop(Prop(qb, unit), task), subTask)

InitJsonBank ==
    /\ SequencerParked
    /\ lastAnsweredSubTask = NoKey
    /\ AnswerIdle
    /\ HandlersIdle
    /\ cAnswer = EmptyStr
    /\ cClass = {}
    /\ GuardIdle
    /\ TextIdle
    /\ JsonIdle

jsonFrame == <<cAnswer, cClass, guardVars, textVars, seqVars, ansVars, hVars,
               bank>>

\* loadQuestionBank() completes in its catch block, lines 194-197
LoadFallsBack ==
    /\ loadResult = NotCompleted
    /\ \E f \in LoadFailures : loadResult' = [outcome |-> f, data |-> JNull]
    /\ questionBank' = builtinData
    /\ UNCHANGED <<answerCall, jsonFrame>>

\* loadQuestionBank() completes with the remote data, lines 187-190
LoadMerges ==
    /\ loadResult = NotCompleted
    /\ \E data \in RemoteData :
          /\ loadResult' = [outcome |-> "ok", data |-> data]
          /\ questionBank' = MergeBanks(builtinData, data)
    /\ UNCHANGED <<answerCall, jsonFrame>>

QueryUnits == {"Unit 1", "Unit 2", "Unit 3"}

QueryTaskNames ==
    {"iExplore 1: Learning before class", "Unit test", "Quiz"}

QuerySubTaskNames == {"", "Part I", "Extra", "Part III"}

\* A call of getAnswer
CallGetAnswer(unit, task, subTask) ==
    /\ answerCall' = [done |-> TRUE, unit |-> unit, task |-> task,
                      subTask |-> subTask,
                      result |-> getAnswer(questionBank, unit, task, subTask)]
    /\ UNCHANGED <<questionBank, loadResult, jsonFrame>>

NextJsonBank ==
    \/ LoadFallsBack
    \/ LoadMerges
    \/ \E unit \in QueryUnits, task \in QueryTaskNames,
          subTask \in QuerySubTaskNames : CallGetAnswer(unit, task, subTask)

SpecJsonBank == InitJsonBank /\ [][NextJsonBank]_vars

(***************************************************************************)
(* Properties of the sequencer, checked under Spec.                        *)
(***************************************************************************)
\* Invocations suspended inside a sub-task handler of a composite task
ActiveHandlers ==
    {i \in Slots : inv[i].pc = "handler" /\ TaskOf(inv[i]).type = "composite"}

\* The step in which invocation i throws at line 319 (catch, finally)
Threw(i) ==
    /\ inv[i].pc = "sleep3000"
    /\ inv'[i] = IdleInv
    /\ idFails' > 0

\* The step in which invocation i clicks a sub-task tab (line 357)
ClicksTab(i) ==
    /\ inv'[i].pc = "tabSleep"
    /\ inv'[i] # inv[i]

\* C1: at most one invocation of main() is past its entry guard at any time
C1_AtMostOneInFlight == Cardinality(InFlight) <= 1

\* C2: once the catch block of main() has run, automation is halted: the run
\* flag is off and the URL observer is disconnected
C2_ExceptionHalts ==
    [][(\E i \in Slots : Threw(i)) =>
          (~isAutomationRunning' /\ ~urlObserver')]_vars

\* C3: an invocation that reads the persisted label and the persisted URL
\* from the page only navigates: it is suspended in the sleep of its single
\* navigateToNextMainTask call, has clicked no tab, and its next step ends it
\* without a GM_setValue (the persisted URL is kept, the persisted label is
\* kept or deleted by the toggleAutomation of the last menu entry)
C3_StallOnlyNavigates ==
    [][\A i \in Slots : inv[i].stalled =>
          /\ inv[i].pc = "navSleep"
          /\ inv[i].handled = <<>>
          /\ inv'[i] \in {inv[i], IdleInv}
          /\ inv'[i] # inv[i] =>
                /\ gmLastUrl' = gmLastUrl
                /\ gmLastProcessed' \in {gmLastProcessed, EmptyStr}]_vars

C3_Witness ==
    \E i \in Slots : inv[i].stalled /\ inv[i].pc = "navSleep"

\* C4 as claimed: the first and the second identification failure in a row
\* leave automation running
C4_FirstTwoFailuresKeepRunning ==
    [][\A i \in Slots :
          (Threw(i) /\ idFails' < 3 /\ isAutomationRunning)
             => isAutomationRunning']_vars

\* C4 as amended: every identification failure, the first in a row included,
\* ends the invocation, clears isProcessing and calls toggleAutomation once,
\* so automation that is running at that moment is disabled at once
C4_EveryFailureToggles ==
    [][\A i \in Slots : Threw(i) =>
          /\ isAutomationRunning' = ~isAutomationRunning
          /\ isAutomationRunning => (~urlObserver' /\ timers' = timers)
          /\ ~isProcessing']_vars

C4_Witness ==
    /\ idFails = 1
    /\ ~isAutomationRunning
    /\ ~urlObserver
    /\ InFlight = {}

\* C5: sub-tasks are processed strictly in order and never concurrently: a
\* tab is clicked only for a later child than the one the invocation was at,
\* while no other invocation is inside a sub-task, and no two sub-task
\* handlers are active at the same time
C5_OrderedNeverConcurrent ==
    [][/\ \A i \in Slots : ClicksTab(i) =>
             /\ inv'[i].child > inv[i].child
             /\ \A j \in Slots \ {i} :
                   inv[j].pc \notin {"tabSleep", "handler", "subSleep"}
       /\ Cardinality(ActiveHandlers') <= 1]_vars

\* The children of ch up to index n whose tab is among tabs, in order
RECURSIVE PresentUpTo(_, _, _)
PresentUpTo(ch, tabs, n) ==
    IF n = 0 THEN <<>>
    ELSE IF ch[n].name \in tabs
         THEN Append(PresentUpTo(ch, tabs, n - 1), n)
         ELSE PresentUpTo(ch, tabs, n - 1)

\* Invocation record r is inside the composite loop (lines 346-365)
InLoop(r) ==
    \/ r.pc \in {"tabSleep", "handler", "subSleep"}
    \/ r.pc \in {"submitWait", "submitNextQ", "submitClicked", "submitConfirm"}
       /\ r.ctx = "sub"

\* What C6 asks of one invocation record of a composite task
SkipsOnlyMissing(r) ==
    (r.task # 0 /\ TaskOf(r).type = "composite") =>
        LET ch == TaskOf(r).children
        IN  IF InLoop(r)
            THEN /\ ch[r.child].name \in r.tabs
                 /\ r.handled = PresentUpTo(ch, r.tabs, r.child)
            ELSE r.handled = PresentUpTo(ch, r.tabs, Len(ch))

\* C6: a sub-task whose tab is missing is skipped, and only it: the tabs
\* clicked so far are exactly the present ones up to the current child, in
\* order, and after the loop all present ones; the loop is left early only
\* when the run flag is off, and a run of the loop does not change the flag
C6_MissingTabSkipsOnlyThat ==
    [][\A i \in Slots :
          /\ SkipsOnlyMissing(inv'[i])
          /\ (inv[i].task # 0 /\ InLoop(inv[i]) /\ inv'[i] # inv[i]) =>
                /\ isAutomationRunning' = isAutomationRunning
                /\ inv'[i] = IdleInv => ~isAutomationRunning]_vars

\* the second tab is missing, the first and the third have been opened
C6_Witness ==
    \E i \in Slots :
        /\ inv[i].task # 0
        /\ inv[i].pc = "handler"
        /\ inv[i].handled = <<1, 3>>
        /\ TaskOf(inv[i]).children[2].name \notin inv[i].tabs
\* The step in which invocation i enters doAnswer() and goes on to answer
\* matching: it passed the 'answered' test and is suspended after a click or
\* an assignment
StartsAnswering(i) ==
    /\ inv[i].pc # "handler"
    /\ inv'[i].pc = "handler"
    /\ inv'[i].key # NoKey

\* C11: while automation runs, no doAnswer() call goes on to answer matching
\* for a view (title, sub-task) that doAnswer() has answered since the start
C11_NoReAnswerInRun ==
    [][\A i \in Slots :
          (StartsAnswering(i) /\ isAutomationRunning)
             => inv'[i].key \notin answeredViews]_vars

\* Invocation record r has read a label that contains the id of no entry of
\* the task map (lines 331-336)
Unmapped(r) == r.title # EmptyStr /\ r.task = 0 /\ ~r.stalled

\* C15: an invocation on an unmapped label only navigates: from the step that
\* reads the label on it is suspended in the sleep of navigateToNextMainTask,
\* has clicked no tab and entered no handler or submit sequence, its next
\* step ends it, and neither step changes lastProcessedTaskName or lastUrl
C15_UnmappedOnlyNavigates ==
    [][\A i \in Slots :
          /\ (Unmapped(inv'[i]) /\ ~Unmapped(inv[i])) =>
                /\ gmLastUrl' = gmLastUrl
                /\ gmLastProcessed' = gmLastProcessed
          /\ Unmapped(inv[i]) =>
                /\ inv[i].pc = "navSleep"
                /\ inv[i].handled = <<>>
                /\ inv[i].key = NoKey
                /\ inv'[i] \in {inv[i], IdleInv}
                /\ inv'[i] # inv[i] =>
                      /\ gmLastUrl' = gmLastUrl
                      /\ gmLastProcessed' = gmLastProcessed]_vars

\* The positions inside completeAndNavigateTaskInternal()
SubmitPcs == {"submitWait", "submitNextQ", "submitClicked", "submitConfirm"}

\* The step in which the final submit sequence of invocation i returns and
\* main() goes on to lines 371-373
FinalSubmitReturns(i) ==
    /\ inv[i].pc \in SubmitPcs
    /\ inv[i].ctx = "final"
    /\ inv'[i].pc = "navSleep"

\* C16: the navigation of a mapped task is started only in the step in which
\* the final submit sequence returns, after the label and the URL have been
\* stored in that step; and a step stores a label or a URL only there (a
\* GM_deleteValue of toggleAutomation stores nothing)
C16_SubmitPersistNavigate ==
    [][/\ \A i \in Slots :
             (inv'[i].pc = "navSleep" /\ inv[i].pc # "navSleep"
                 /\ inv'[i].task # 0 /\ ~inv'[i].stalled) =>
                /\ FinalSubmitReturns(i)
                /\ gmLastProcessed' = inv[i].title
                /\ gmLastUrl' = href
       /\ (gmLastUrl' # gmLastUrl
              \/ gmLastProcessed' \notin {gmLastProcessed, EmptyStr}) =>
             \E i \in Slots :
                /\ FinalSubmitReturns(i)
                /\ gmLastProcessed' = inv[i].title
                /\ gmLastUrl' = href]_vars

\* a mapped task has been processed to its end, the pair is stored and the
\* navigation is waiting to click
C16_Witness ==
    \E i \in Slots :
        /\ inv[i].pc = "navSleep"
        /\ inv[i].ctx = "final"
        /\ inv[i].handled # <<>>
        /\ gmLastProcessed = inv[i].title
        /\ gmLastUrl = href

\* The observer callback has just registered the change of the URL to that
\* of menu entry p, while automation runs
Observed(p) ==
    lastStep = "observed" /\ isAutomationRunning /\ href = p

\* An invocation of main() has read the label of menu entry p
Processing(p) ==
    \E i \in Slots : inv[i].pc # "idle" /\ inv[i].title = TitleOf(p)

\* C17: while automation runs, a URL change the observer callback has
\* observed is eventually followed by an invocation of main() that reads the
\* new page, unless automation is stopped or the page moves on first
C17_EveryUrlChangeProcessed ==
    \A p \in Pages :
        Observed(p) ~> (Processing(p) \/ ~isAutomationRunning \/ href # p)

ReachesIteration(i) ==
    /\ inv'[i] # inv[i]
    /\ \/ /\ inv[i].pc = "sleep3000"
          /\ idFails' = 0
          /\ ~IsStalled(TitleOf(href), href, gmLastProcessed, gmLastUrl)
          /\ FindTask(TitleOf(href)) # 0
          /\ UNIT_STRUCTURE[FindTask(TitleOf(href))].type = "composite"
       \/ /\ inv[i].pc \in {"handler", "subSleep"}
          /\ TaskOf(inv[i]).type = "composite"
          /\ inv[i].pc = "handler" =>
                ~TaskOf(inv[i]).children[inv[i].child].needsSubmit
          /\ inv[i].child < Len(TaskOf(inv[i]).children)

\* C19: when the run flag is off at the start of an iteration of the
\* composite loop, main() returns there: the invocation ends without opening
\* that sub-task or a later one, without a submit sequence, without storing
\* the label and the URL and without a navigation click
C19_StopEndsCompositeLoop ==
    [][\A i \in Slots :
          (ReachesIteration(i) /\ ~isAutomationRunning) =>
             /\ inv'[i] = IdleInv
             /\ lastStep' = "cancel"
             /\ UNCHANGED <<gmLastProcessed, gmLastUrl, href,
                            isAutomationRunning, timers>>]_vars

\* main() has just returned at line 347 and is no longer in flight
C19_Witness == lastStep = "cancel" /\ ~isAutomationRunning /\ InFlight = {}

\* The fetch of the bank has failed: no request is under way and
\* QUESTION_BANK is empty
FetchFailed == BankEmpty /\ ~bank.pending

\* C20: after a failed fetch, with the bank still empty, a run is inert: no
\* step records an answered view or sets the dedup key, no invocation comes
\* to wait after a click of the submit sequence (on the next-question, the
\* submit or the confirmation button), and the step that ends a navigation
\* leaves the page where it is
C20_EmptyBankInert ==
    [][FetchFailed =>
          /\ answeredViews' \subseteq answeredViews
          /\ lastAnsweredSubTask' \in {lastAnsweredSubTask, NoKey}
          /\ \A i \in Slots :
                /\ inv'[i].pc \in {"submitNextQ", "submitClicked", "submitConfirm"}
                      => inv'[i] = inv[i]
                /\ (inv[i].pc = "navSleep" /\ inv'[i] # inv[i])
                      => href' = href]_vars

\* The step in which toggleAutomation() starts automation
Starts == ~isAutomationRunning /\ isAutomationRunning'

\* C22: a start leaves lastAnsweredSubTask empty and lastProcessedTaskName
\* absent, and the first invocation of main() that passes the guard after a
\* start does not take the stall branch when it reads the page
C22_FirstMainNeverStalls ==
    [][/\ Starts => (lastAnsweredSubTask' = NoKey /\ gmLastProcessed' = EmptyStr)
       /\ \A i \in Slots :
             (inv[i].pc = "sleep3000" /\ inv[i].ctx = "first")
                => ~inv'[i].stalled]_vars

\* navigateToNextMainTask() of invocation i reaches line 452 in this step:
\* it returns from its sleep on the last menu entry and flips the run flag
\* (no other branch of it touches the flag)
TogglesAtLastEntry(i) ==
    /\ inv[i].pc = "navSleep"
    /\ inv'[i].pc # "navSleep"
    /\ href = NumPages
    /\ isAutomationRunning' # isAutomationRunning

\* C26: when navigateToNextMainTask finds the current entry to be the last
\* of the menu, automation is stopped afterwards: the run flag is false and
\* the URL observer is disconnected
C26_LastEntryStops ==
    [][\A i \in Slots :
          TogglesAtLastEntry(i) => (~isAutomationRunning' /\ ~urlObserver')]_vars

\* Invocation i clicks a submit button in this step (line 422)
ClicksSubmit(i) == inv[i].pc # "submitClicked" /\ inv'[i].pc = "submitClicked"

\* Invocation i persists lastProcessedTaskName in this step (line 371)
Persists(i) == inv[i].pc \in SubmitPcs /\ inv'[i].pc = "navSleep"

\* Invocation i clicks the next menu entry in this step and the page follows
\* (line 448)
ClicksMenu(i) ==
    inv[i].pc = "navSleep" /\ inv'[i].pc # "navSleep" /\ href' # href

\* C27: while automation is stopped, an invocation of main() that is still
\* in flight clicks no submit button and no menu entry and does not persist
\* lastProcessedTaskName
C27_StoppedInvocationIsInert ==
    [][\A i \in Slots :
          ~isAutomationRunning =>
              ~(ClicksSubmit(i) \/ Persists(i) \/ ClicksMenu(i))]_vars

\* C28: between the steps of the script the URL observer is set exactly when
\* isAutomationRunning is true, and the page carries one connected observer
\* then and none otherwise, whoever called toggleAutomation
C28_ObserverFollowsRunFlag ==
    /\ urlObserver <=> isAutomationRunning
    /\ observers = (IF isAutomationRunning THEN 1 ELSE 0)

\* automation has been started, stopped and started again by the button and
\* an invocation of main() is about to call toggleAutomation() at the last
\* menu entry
C28_Witness ==
    /\ isAutomationRunning
    /\ urlObserver
    /\ observers = 1
    /\ href = NumPages
    /\ \E i \in Slots : inv[i].pc = "navSleep" /\ inv[i].ctx = "none"
    /\ \E j \in Slots : inv[j].pc = "sleep3000" /\ inv[j].ctx = "first"

\* What C25 asks of one invocation record of a composite task: the calls of
\* the submit sequence made so far are one for each child that has needsSubmit
\* and whose tab was clicked, in order, the current child counting once its
\* handler has returned, and one more once the loop is over
SubmitsAsClaimed(r) ==
    (r.task # 0 /\ TaskOf(r).type = "composite") =>
        LET ch        == TaskOf(r).children
            afterLoop == r.ctx = "final"
            past(k)   == \/ k < r.child
                         \/ r.pc \in SubmitPcs \cup {"subSleep"}
                         \/ afterLoop
            due       == SelectSeq(r.handled,
                                   LAMBDA k : ch[k].needsSubmit /\ past(k))
        IN  r.submits = [j \in 1..Len(due) |-> <<"sub", due[j]>>]
                           \o (IF afterLoop THEN << <<"final", 0>> >> ELSE <<>>)

C7_LetterAnswerNeverFreeText ==
    IsLetterAnswer(answers) => writes = <<>>

\* '<digits>.' or '<digits>)' plus the whitespace after it is removed from the
\* line; a line without such a marker is left as it is
StripMarkerOnly(line) ==
    LET rest == DropDigits(line)
    IN  IF line # <<>> /\ Head(line) \in Digits
           /\ rest # <<>> /\ Head(rest) \in {".", ")"}
        THEN TrimStart(Tail(rest))
        ELSE line

\* C8: every value assigned to an input is a line of the answer from which
\* at most a leading '<digits>.' or '<digits>)' marker with its whitespace was
\* stripped, trimmed; digits followed directly by text stay
C8_OnlyOrdinalMarkerStripped ==
    \A k \in 1..Len(writes) :
        \E n \in 1..Len(Split(answers)) :
            writes[k].value = Trim(StripMarkerOnly(Split(answers)[n]))

\* C9: the clicks of one doAnswer() call go through the blocks in increasing
\* order, at most one per block and none beyond min(n, m); the clicked option
\* carries the caption L_i of its block's position and was not selected
C9_ChoiceClicksPositional ==
    \A k \in 1..Len(clicks) :
        LET c == clicks[k]
            letters == AnswerLetters(answers)
        IN  /\ IsLetterAnswer(Trim(answers))
            /\ c.block \in 1..Min(Len(choiceQuestions), Len(letters))
            /\ c.option \in 1..Len(choiceQuestions[c.block])
            /\ c.caption = letters[c.block]
            /\ ~c.wasSelected
            /\ \A h \in 1..(k - 1) :
                    clicks[h].call = c.call => clicks[h].block < c.block

\* a call has returned after it passed over block 1, whose option for the
\* first letter was already selected, and clicked in block 2
C9_Witness ==
    /\ apc = "idle"
    /\ calls = 1
    /\ Len(clicks) = 1
    /\ clicks[1].block = 2
    /\ \E o \in 1..Len(choiceQuestions[1]) :
            /\ choiceQuestions[1][o].caption = AnswerLetters(answers)[1]
            /\ choiceQuestions[1][o].selected

\* C10: a step of the second or a later doAnswer() call on the same view
\* clicks no option that is selected, assigns to no input that is non-empty
\* and leaves the value of every non-empty input as it is
C10_SecondCallIdempotent ==
    [][ calls' >= 2 =>
          /\ \A n \in 1..Len(textInputs) :
                textInputs[n] # EmptyStr => textInputs'[n] = textInputs[n]
          /\ \A n \in 1..Len(fillInBlanks) :
                fillInBlanks[n] # EmptyStr => fillInBlanks'[n] = fillInBlanks[n]
          /\ Len(writes') > Len(writes) =>
                LET w == writes'[Len(writes')]
                IN  IF w.kind = "text"
                    THEN textInputs[w.index] = EmptyStr
                    ELSE fillInBlanks[w.index] = EmptyStr
          /\ Len(clicks') > Len(clicks) =>
                LET c == clicks'[Len(clicks')]
                IN  ~choiceQuestions[c.block][c.option].selected ]_vars

\* the second call went through a branch again (the key had been cleared
\* after the first call answered) and has returned without answering
C10_Witness ==
    /\ apc = "idle"
    /\ calls = 2
    /\ lastAnsweredSubTask = NoKey
    /\ Len(clicks) + Len(writes) > 0
    /\ \E n \in 1..Len(textInputs) : textInputs[n] # EmptyStr

\* C21: when the bank holds no answer for the view (the lookup of line 210
\* yields nothing), a doAnswer() call clicks no option, assigns to no input,
\* leaves lastAnsweredSubTask as it is and returns within the same run
C21_LookupMissIsNoOp ==
    [][answers = EmptyStr =>
          /\ UNCHANGED <<choiceQuestions, textInputs, fillInBlanks,
                         lastAnsweredSubTask, clicks, writes, answered>>
          /\ apc' = "idle"]_vars

\* doAnswer() has been called and has returned on a page that shows
\* questions, with no answer in the bank
C21_Witness ==
    /\ answers = EmptyStr
    /\ calls >= 1
    /\ apc = "idle"
    /\ Len(choiceQuestions) + Len(textInputs) + Len(fillInBlanks) > 0

\* The inputs of free-text branch b
InputsOf(b, ti, fb) == IF b = "text" THEN ti ELSE fb

\* What C24 asks of one run of the loop of branch b that starts at index
\* 'from' and stops at index 'to' (one past the limit when the loop ends):
\* the inputs passed over hold a value and keep it, the input stopped at was
\* empty and receives the line of its own index, nothing else changes
FreeTextRun(b, from, to) ==
    LET old   == InputsOf(b, textInputs, fillInBlanks)
        new   == InputsOf(b, textInputs', fillInBlanks')
        lines == AnswerLines(answers)
    IN  /\ Len(new) = Len(old)
        /\ InputsOf(IF b = "text" THEN "fill" ELSE "text",
                    textInputs', fillInBlanks')
             = InputsOf(IF b = "text" THEN "fill" ELSE "text",
                        textInputs, fillInBlanks)
        /\ \A k \in 1..Len(old) :
              IF k = to /\ to <= Min(Len(old), Len(lines))
              THEN old[k] = EmptyStr /\ new[k] = lines[k]
              ELSE /\ new[k] = old[k]
                   /\ (from <= k /\ k < to) => old[k] # EmptyStr

\* C24: in the text-area and fill-in branches the i-th answer line goes to
\* the i-th input exactly if that input is empty when the loop reaches it;
\* an input that holds a value keeps it and its line goes nowhere else
C24_FreeTextPositional ==
    [][LET starts == /\ apc = "idle"
                     /\ calls' = calls + 1
                     /\ lastAnsweredSubTask # ViewKey
                     /\ answers # EmptyStr
           b   == IF apc = "idle" THEN BranchOf(AnswerState, answers) ELSE apc
           lim == Min(Len(InputsOf(b, textInputs, fillInBlanks)),
                      Len(AnswerLines(answers)))
       IN  ((starts \/ apc \in {"text", "fill"}) /\ b \in {"text", "fill"}) =>
              FreeTextRun(b, IF apc = "idle" THEN 1 ELSE ai + 1,
                          IF apc' = "idle" THEN lim + 1 ELSE ai')]_vars

\* one call has passed over the first text area, which held a value, and has
\* written the second line into the second
C24_Witness ==
    /\ apc = "idle"
    /\ calls = 1
    /\ Len(writes) = 1
    /\ writes[1].kind = "text"
    /\ writes[1].index = 2
    /\ textInputs[1] = <<"o">>
    /\ textInputs[2] = AnswerLines(answers)[2]

(***************************************************************************)
(* Properties of the archived variants.                                    *)
(***************************************************************************)
\* C23: every variant gives the answer the class the test script gives it:
\* choice for letters A-D and whitespace only, else fill for a multi-line
\* answer with a line that begins '<digits>.', else text; and one class only
C23_VariantsAgreeWithTest ==
    /\ \A c \in cClass : c[2] = Classify(cAnswer, {"."})
    /\ \A c, d \in cClass : c[1] = d[1] => c[2] = d[2]

\* C29: in the AutoJS v3.2 script at most one checkUrl timer chain is alive
\* at any time
C29_OnePollingLoop == v3Chains <= 1

\* The return paths of processCurrentPage past its guard in each variant
PathsOf(v) ==
    IF v = "autojs" THEN {"video", "success", "exception"}
    ELSE {"video", "noQuestions", "noAnswer", "success", "exception"}

\* C30: the guard flag of processCurrentPage is true exactly while an
\* invocation is between its guard and its return, and no two invocations
\* are past the guard together
C30_GuardFlagExact ==
    /\ guardFlag <=> PcpInFlight # {}
    /\ Cardinality(PcpInFlight) <= 1

\* the full version has returned by every path past the guard, has refused
\* a call at the guard, and no invocation is in flight
C30_Witness ==
    /\ variant = "full"
    /\ returned = PathsOf("full") \cup {"guard"}
    /\ PcpInFlight = {}
    /\ ~guardFlag

\* The lines of the loaded bank text
TextLines == SplitAt(questionBankContent.text, "\n")

\* The answers a the claim promises for (U, T, S): the text has the line U,
\* later the line T with no other unit in between, later a line 'S: a' with
\* no other unit or task header in between
PromisedAnswers(U, T, S) ==
    {a \in {AnswerAB, AnswerC} :
        \E i, j, k \in 1..Len(TextLines) :
            /\ i < j /\ j < k
            /\ TextLines[i] = U
            /\ TextLines[j] = T
            /\ TextLines[k] = SubTaskLine(S, a)
            /\ \A m \in (i + 1)..(j - 1) : TextLines[m] \notin PageUnits
            /\ \A m \in (j + 1)..(k - 1) :
                  TextLines[m] \notin PageUnits \cup QueryTasks}

\* C31: findAnswerInQuestionBank(U, T, S) returns a when the text holds the
\* line U, then T, then 'S: a' under them, and null when the bank is not
\* loaded or the text has no line for S; also for the task names
\* getCurrentPageInfo() produces
C31_LookupFindsSubTaskLine ==
    lookupCall.done =>
        LET U == lookupCall.unit
            T == lookupCall.task
            S == lookupCall.subTask
        IN  /\ ~questionBankContent.loaded => ~lookupCall.found
            /\ (questionBankContent.loaded /\ PromisedAnswers(U, T, S) # {})
                  => (lookupCall.found
                        /\ lookupCall.answer \in PromisedAnswers(U, T, S))
            /\ (questionBankContent.loaded
                  /\ \A k \in 1..Len(TextLines), a \in {AnswerAB, AnswerC} :
                        TextLines[k] # SubTaskLine(S, a))
                  => ~lookupCall.found

\* The order in which C32 says the sub-tasks are tried
ClaimedOrder ==
    <<"Reading comprehension", "Dealing with vocabulary", "Application",
      "Part I", "Part II", "Part III">>

\* What C32 asks of the call c made on the bank qb, a unit, a task or a
\* sub-task being present when the bank has a non-empty value for it
AnswerAsClaimed(qb, c) ==
    LET u == IF Truthy(qb) THEN Prop(qb, c.unit) ELSE JUndefined
        t == IF Truthy(u) THEN Prop(u, c.task) ELSE JUndefined
    IN  /\ c.result.kind # "throw"
        /\ ~Truthy(t) => c.result = JNull
        /\ Truthy(t) =>
              IF c.subTask # "" /\ Truthy(Prop(t, c.subTask))
              THEN c.result = Prop(t, c.subTask)
              ELSE \A k \in 1..Len(ClaimedOrder) :
                      (/\ Truthy(Prop(t, ClaimedOrder[k]))
                       /\ \A m \in 1..(k - 1) : ~Truthy(Prop(t, ClaimedOrder[m])))
                          => c.result = Prop(t, ClaimedOrder[k])

\* C32: getAnswer returns null when the bank, the unit or the task is
\* missing, the answer of the given sub-task when that is present, otherwise
\* the answer of the first present sub-task in the fixed order, and never
\* throws
C32_GetAnswerAsDocumented ==
    [][answerCall' # answerCall => AnswerAsClaimed(questionBank, answerCall')]_vars

\* getAnswer was called for a sub-task the task does not have, on a task that
\* has 'Reading comprehension' and 'Part I', and returned the former's answer
C32_Witness ==
    /\ answerCall.done
    /\ answerCall.unit = "Unit 2"
    /\ answerCall.task = "Unit test"
    /\ answerCall.subTask = "Part III"
    /\ answerCall.result = JStr(RemoteAnswer("Reading comprehension"))
    /\ Prop(Prop(Prop(questionBank, "Unit 2"), "Unit test"), "Part I")
          = JStr(RemoteAnswer("Part I"))

\* C33: once loadQuestionBank has completed the bank is not null; after a
\* failure it is the built-in bank; after a success it has every built-in
\* unit key, under which it holds the remote unit if the remote data has one
\* of that name and the built-in unit otherwise
C33_BankAfterLoad ==
    loadResult.outcome # "none" =>
        /\ questionBank.kind = "object"
        /\ loadResult.outcome \in LoadFailures => questionBank = builtinData
        /\ loadResult.outcome = "ok" =>
              \A u \in DOMAIN builtinData.fields :
                  /\ u \in DOMAIN questionBank.fields
                  /\ questionBank.fields[u] =
                        IF u \in DOMAIN Spread(loadResult.data)
                        THEN loadResult.data.fields[u]
                        ELSE builtinData.fields[u]

\* the load succeeded with remote data that has its own 'Unit 1' and a
\* 'Unit 2': the bank holds the remote 'Unit 1'
C33_Witness ==
    /\ loadResult.outcome = "ok"
    /\ DOMAIN Spread(loadResult.data) = {"Unit 1", "Unit 2"}
    /\ Truthy(loadResult.data.fields["Unit 1"])
    /\ questionBank.fields["Unit 1"] = loadResult.data.fields["Unit 1"]
    /\ questionBank.fields["Unit 1"] # builtinData.fields["Unit 1"]

(***************************************************************************)
(* Properties of the handlers and of the submit sequence (SpecHandlers).   *)
(***************************************************************************)
\* C12: every call of handleVideoTask() resolves, whatever the media element
\* does: also when play() never settles and when 'canplay' never fires
C12_VideoAlwaysResolves ==
    (hkind = "video") ~> (hret # "pending")

\* C13: handleVocabularyTask() clicks 'next' at most 50 times, one click per
\* pass and only in a pass that found the run flag on and an enabled 'next'
\* control; it returns in every case, and with true when the ceiling is hit
C13_VocabularyCeiling ==
    /\ [](hkind = "vocabulary" =>
            /\ hclicks <= VocMaxClicks
            /\ hpc = "done" => hret \in {"true", "false"}
            /\ (hpc = "done" /\ hclicks = VocMaxClicks) => hret = "true")
    /\ [][(hkind = "vocabulary" /\ hclicks' # hclicks) =>
            /\ hclicks' = hclicks + 1
            /\ isAutomationRunning
            /\ voc.next
            /\ hpc' = "vocSleep"]_vars
    /\ (hkind = "vocabulary") ~> (hpc = "done")

\* the call has returned true after 50 clicks
C13_Witness ==
    /\ hkind = "vocabulary"
    /\ hpc = "done"
    /\ hclicks = VocMaxClicks
    /\ hret = "true"

\* C14: completeAndNavigateTaskInternal() returns true if and only if it has
\* clicked at least once (next question, submit button or confirmation)
C14_ReturnsWhetherClicked ==
    (hkind = "submit" /\ hpc = "done") => (hret = "true" <=> hclicks > 0)

=============================================================================
